---- MODULE Spec2Model ----
(***************************************************************************)
(* Model of the c67-mcp request/response translation layer:                *)
(*   - Context7Client  (src/src/client.rs, duplicated in handler.rs)       *)
(*   - Context7Tool::call_tool (src/src/server.rs, duplicated in           *)
(*     handler.rs)                                                         *)
(*                                                                         *)
(* Strings are modelled as sequences of pieces (format! is concatenation). *)
(* Option<T> is modelled as a sequence of length 0 (None) or 1 (Some).     *)
(***************************************************************************)
EXTENDS Integers, Sequences, FiniteSets, TLC

\* Number of tool invocations the protocol runtime may have in flight at once.
MaxCalls == 2
\* the longest "results" array of an upstream search response
MaxMatches == 3
\* the failures the history counts before it stops counting
MaxFailures == 2

\* ------------------------------------------------------------------------
\* Option<T>
\* ------------------------------------------------------------------------
None == <<>>
Some(x) == <<x>>
IsSome(o) == o # <<>>
Unwrap(o) == o[1]

\* ------------------------------------------------------------------------
\* Program constants
\* ------------------------------------------------------------------------
CONTEXT7_API_BASE_URL == <<"https://context7.com/api">>
MINIMUM_TOKENS == 1000
DEFAULT_TOKENS == 5000

RESOLVE_LIBRARY_ID == "resolve-library-id"
GET_LIBRARY_DOCS == "get-library-docs"

RATE_LIMITED == <<"Rate limited due to too many requests. Please try again later.">>
UNAUTHORIZED == <<"Unauthorized. Please check your API key.">>
NOT_EXIST == <<"The library you are trying to access does not exist. Please try with a different library ID.">>
FAILED_SEARCH == <<"Failed to search libraries: ">>
FAILED_FETCH == <<"Failed to fetch documentation: ">>
NO_CONTENT_AVAILABLE == <<"No content available">>
NO_CONTEXT_DATA_AVAILABLE == <<"No context data available">>

\* ------------------------------------------------------------------------
\* serde_json::Value as carried in the tool-call argument map
\* ------------------------------------------------------------------------
\* A number is hi * 2^32 + n with 0 <= n < 2^32 when it is a non-negative
\* integer (hi = 0 for every value that fits 32 bits); frac marks a number
\* with a fractional part.
JStr(s) == [t |-> "string", s |-> s, hi |-> 0, n |-> 0, frac |-> FALSE]
JNum(n) == [t |-> "number", s |-> <<>>, hi |-> 0, n |-> n, frac |-> FALSE]
JBig(hi, n) == [t |-> "number", s |-> <<>>, hi |-> hi, n |-> n, frac |-> FALSE]
JFloat(n) == [t |-> "number", s |-> <<>>, hi |-> 0, n |-> n, frac |-> TRUE]

\* Value::as_str
as_str(v) == IF v.t = "string" THEN Some(v.s) ELSE None

\* Variant of as_u64 that takes every integer number, negative ones too
\* (as_i64 followed by the cast).
as_u64_signed(v) ==
    IF v.t = "number" /\ ~v.frac
    THEN Some([hi |-> v.hi, n |-> v.n])
    ELSE None

\* Value::as_u64: Some only for a non-negative integer number
as_u64(v) ==
    IF v.t = "number" /\ ~v.frac /\ v.n >= 0
    THEN Some([hi |-> v.hi, n |-> v.n])
    ELSE None

\* t as u32: keeps the low 32 bits
as_u32(t) == t.n

\* request.arguments.as_ref().and_then(|args| args.get(key))
args_get(arguments, key) ==
    IF arguments.some /\ key \in DOMAIN arguments.map
    THEN Some(arguments.map[key])
    ELSE None

\* ...and_then(|v| v.as_str())
get_str(arguments, key) ==
    LET v == args_get(arguments, key)
    IN  IF IsSome(v) THEN as_str(Unwrap(v)) ELSE None

\* ...and_then(|v| v.as_u64()).map(|t| t as u32)
get_u32(arguments, key) ==
    LET v == args_get(arguments, key)
        u == IF IsSome(v) THEN as_u64(Unwrap(v)) ELSE None
    IN  IF IsSome(u) THEN Some(as_u32(Unwrap(u))) ELSE None

\* ------------------------------------------------------------------------
\* Upstream wire data
\* ------------------------------------------------------------------------
\* One element of the "results" array as it is on the wire (camelCase).
WireNix ==
    [id |-> <<"/", "nixos/nix">>, title |-> <<"Nix">>,
     description |-> <<"The Nix package manager">>,
     totalSnippets |-> Some(1241), trustScore |-> Some(900),
     versions |-> Some(<< <<"2.18.0">>, <<"2.17.0">> >>)]

WireBare ==
    [id |-> <<"/", "vercel/next.js">>, title |-> <<"Next.js">>,
     description |-> <<"The React framework">>,
     totalSnippets |-> Some(-1), trustScore |-> None,
     versions |-> Some(<<>>)]

\* Variant of SearchResult without the serde renames: the snake_case keys are
\* not on the wire, so both optional numbers deserialize to None.
SearchResult_no_rename(w) ==
    [id |-> w.id, title |-> w.title, description |-> w.description,
     total_snippets |-> None, trust_score |-> None,
     versions |-> w.versions]

\* serde field mapping of SearchResult (rename totalSnippets / trustScore)
SearchResult(w) ==
    [id |-> w.id, title |-> w.title, description |-> w.description,
     total_snippets |-> w.totalSnippets, trust_score |-> w.trustScore,
     versions |-> w.versions]

RECURSIVE MapSearchResult(_)
MapSearchResult(ws) ==
    IF ws = <<>> THEN <<>>
    ELSE <<SearchResult(Head(ws))>> \o MapSearchResult(Tail(ws))

\* A 2xx response body.  readable: the body can be read off the socket;
\* syntax: it is well-formed JSON; hasResults: the "results" key is there;
\* error: the JSON value of the "error" key ("absent", "null", "string" or
\* "number"); text: the raw body of a documentation response.
Body(readable, syntax, hasResults, results, errT, errS, text) ==
    [readable |-> readable, syntax |-> syntax, hasResults |-> hasResults,
     results |-> results, errT |-> errT, errS |-> errS, text |-> text]

SearchBodies ==
    { Body(TRUE, TRUE, TRUE, rs, et[1], et[2], <<>>) :
        rs \in { <<>>, <<WireNix, WireBare>>, <<WireBare, WireNix>> },
        et \in { <<"null", <<>> >>, <<"string", <<"upstream says no">> >> } }
    \cup
    { Body(TRUE, TRUE, TRUE, <<WireNix>>, "absent", <<>>, <<>>),
      Body(TRUE, TRUE, TRUE, <<WireNix>>, "number", <<>>, <<>>),
      Body(TRUE, TRUE, FALSE, <<>>, "null", <<>>, <<>>),
      Body(TRUE, FALSE, FALSE, <<>>, "absent", <<>>, <<>>),
      Body(FALSE, FALSE, FALSE, <<>>, "absent", <<>>, <<>>) }

FetchBodies ==
    { Body(TRUE, FALSE, FALSE, <<>>, "absent", <<>>, txt) :
        txt \in { <<>>, NO_CONTENT_AVAILABLE, NO_CONTEXT_DATA_AVAILABLE,
                  <<"# Getting Started with Nix">>,
                  <<"No content available", " yet">> } }
    \cup
    { Body(FALSE, FALSE, FALSE, <<>>, "absent", <<>>, <<>>) }

NoBody == Body(FALSE, FALSE, FALSE, <<>>, "absent", <<>>, <<>>)

\* Outcome of the blocking task:
\*   "ok"        request.call() returned Ok(response)          (2xx)
\*   "status"    request.call() returned Err(Status(code, _))
\*   "transport" request.call() returned Err(Transport(_))
\*   "join"      the blocking task did not produce a value (JoinError)
Outcome(kind, status, body) == [kind |-> kind, status |-> status, body |-> body]

FailureStatuses == {429, 401, 404, 500}

FailureOutcomes ==
    { Outcome("status", s, NoBody) : s \in FailureStatuses }
    \cup { Outcome("transport", 0, NoBody), Outcome("join", 0, NoBody) }

SearchOutcomes == { Outcome("ok", 200, b) : b \in SearchBodies } \cup FailureOutcomes
FetchOutcomes == { Outcome("ok", 200, b) : b \in FetchBodies } \cup FailureOutcomes

\* Display of a ureq::Error ("{}", e)
DisplayError(outcome) ==
    IF outcome.kind = "status"
    THEN <<"status code ", ToString(outcome.status)>>
    ELSE <<"transport error">>

\* Display of the anyhow error produced by the ? operator
JoinErrorText == <<"task failed to join">>
BodyErrorText(body) ==
    IF ~body.readable THEN <<"failed to read body">>
    ELSE IF ~body.syntax THEN <<"expected value">>
    ELSE IF ~body.hasResults THEN <<"missing field results">>
    ELSE <<"invalid type: expected a string">>

\* ------------------------------------------------------------------------
\* Context7Client
\* ------------------------------------------------------------------------
\* Context7Client::new: the base URL is the fixed production URL.
Context7Client(api_key, insecure) ==
    [api_key |-> api_key, base_url |-> CONTEXT7_API_BASE_URL, insecure |-> insecure]

\* Result<T> of the two client calls, one record shape for both:
\*   ok = TRUE : results/error hold the SearchResponse, doc the Option<String>
\*   ok = FALSE: err holds the Display text of the anyhow error
OkSearch(results, error) ==
    [ok |-> TRUE, results |-> results, error |-> error, doc |-> None, err |-> <<>>]
OkDoc(doc) ==
    [ok |-> TRUE, results |-> <<>>, error |-> None, doc |-> doc, err |-> <<>>]
Err(text) ==
    [ok |-> FALSE, results |-> <<>>, error |-> None, doc |-> None, err |-> text]

\* Variant of search_request that sets the source header of the
\* documentation request too.
search_request_with_source(client, query) ==
    [method |-> "GET",
     url |-> client.base_url \o <<"/v1/search">>,
     query |-> << <<"query", query>> >>,
     headers |-> (IF IsSome(client.api_key)
                  THEN << <<"Authorization", <<"Bearer ">> \o Unwrap(client.api_key)>> >>
                  ELSE <<>>)
                 \o << <<"X-Context7-Source", <<"mcp-server">> >> >>,
     insecure |-> client.insecure]

\* The request search_libraries hands to the blocking task.
search_request(client, query) ==
    [method |-> "GET",
     url |-> client.base_url \o <<"/v1/search">>,
     query |-> << <<"query", query>> >>,
     headers |-> IF IsSome(client.api_key)
                 THEN << <<"Authorization", <<"Bearer ">> \o Unwrap(client.api_key)>> >>
                 ELSE <<>>,
     insecure |-> client.insecure]

\* Variant of strip_prefix that removes every leading '/' (trim_start_matches).
RECURSIVE strip_prefix_all(_)
strip_prefix_all(library_id) ==
    IF library_id # <<>> /\ Head(library_id) = "/"
    THEN strip_prefix_all(Tail(library_id))
    ELSE library_id

\* library_id.strip_prefix('/').unwrap_or(library_id)
strip_prefix(library_id) ==
    IF library_id # <<>> /\ Head(library_id) = "/" THEN Tail(library_id) ELSE library_id

\* Variant of clamp_tokens with min in place of max.
clamp_tokens_min(tokens) ==
    LET t == IF IsSome(tokens) THEN Unwrap(tokens) ELSE DEFAULT_TOKENS
    IN  IF t < MINIMUM_TOKENS THEN t ELSE MINIMUM_TOKENS

\* tokens.unwrap_or(DEFAULT_TOKENS).max(MINIMUM_TOKENS)
clamp_tokens(tokens) ==
    LET t == IF IsSome(tokens) THEN Unwrap(tokens) ELSE DEFAULT_TOKENS
    IN  IF t < MINIMUM_TOKENS THEN MINIMUM_TOKENS ELSE t

\* Variant of fetch_request that leaves out an empty topic.
fetch_request_skip_empty_topic(client, library_id, tokens, topic) ==
    [method |-> "GET",
     url |-> client.base_url \o <<"/v1/">> \o strip_prefix(library_id),
     query |-> << <<"tokens", <<ToString(clamp_tokens(tokens))>> >>,
                  <<"type", <<"txt">> >> >>
              \o (IF IsSome(topic) /\ Unwrap(topic) # <<>>
                  THEN << <<"topic", Unwrap(topic)>> >> ELSE <<>>),
     headers |-> (IF IsSome(client.api_key)
                  THEN << <<"Authorization", <<"Bearer ">> \o Unwrap(client.api_key)>> >>
                  ELSE <<>>)
                 \o << <<"X-Context7-Source", <<"mcp-server">> >> >>,
     insecure |-> client.insecure]

\* The request fetch_library_documentation hands to the blocking task.
fetch_request(client, library_id, tokens, topic) ==
    [method |-> "GET",
     url |-> client.base_url \o <<"/v1/">> \o strip_prefix(library_id),
     query |-> << <<"tokens", <<ToString(clamp_tokens(tokens))>> >>,
                  <<"type", <<"txt">> >> >>
              \o (IF IsSome(topic) THEN << <<"topic", Unwrap(topic)>> >> ELSE <<>>),
     headers |-> (IF IsSome(client.api_key)
                  THEN << <<"Authorization", <<"Bearer ">> \o Unwrap(client.api_key)>> >>
                  ELSE <<>>)
                 \o << <<"X-Context7-Source", <<"mcp-server">> >> >>,
     insecure |-> client.insecure]

\* response.into_json::<SearchResponse>()
into_json(body) ==
    IF body.readable /\ body.syntax /\ body.hasResults
       /\ body.errT \in {"absent", "null", "string"}
    THEN OkSearch(MapSearchResult(body.results),
                  IF body.errT = "string" THEN Some(body.errS) ELSE None)
    ELSE Err(BodyErrorText(body))

\* Variant of search_libraries that propagates every ureq error with ?.
search_libraries_propagate(outcome) ==
    IF outcome.kind = "join" THEN Err(JoinErrorText)
    ELSE IF outcome.kind = "ok" THEN into_json(outcome.body)
    ELSE Err(DisplayError(outcome))

\* Variant of search_libraries whose failure arms leave the error field unset.
search_libraries_no_error(outcome) ==
    IF outcome.kind = "join" THEN Err(JoinErrorText)
    ELSE IF outcome.kind = "ok" THEN into_json(outcome.body)
    ELSE OkSearch(<<>>, None)

\* Variant of search_libraries with the 404 arm of the documentation call.
search_libraries_404(outcome) ==
    IF outcome.kind = "join" THEN Err(JoinErrorText)
    ELSE IF outcome.kind = "ok" THEN into_json(outcome.body)
    ELSE IF outcome.kind = "status" /\ outcome.status = 429
         THEN OkSearch(<<>>, Some(RATE_LIMITED))
    ELSE IF outcome.kind = "status" /\ outcome.status = 404
         THEN OkSearch(<<>>, Some(NOT_EXIST))
    ELSE IF outcome.kind = "status" /\ outcome.status = 401
         THEN OkSearch(<<>>, Some(UNAUTHORIZED))
    ELSE OkSearch(<<>>, Some(FAILED_SEARCH \o DisplayError(outcome)))

\* The part of search_libraries after the blocking task has finished.
search_libraries(outcome) ==
    IF outcome.kind = "join" THEN Err(JoinErrorText)
    ELSE IF outcome.kind = "ok" THEN into_json(outcome.body)
    ELSE IF outcome.kind = "status" /\ outcome.status = 429
         THEN OkSearch(<<>>, Some(RATE_LIMITED))
    ELSE IF outcome.kind = "status" /\ outcome.status = 401
         THEN OkSearch(<<>>, Some(UNAUTHORIZED))
    ELSE OkSearch(<<>>, Some(FAILED_SEARCH \o DisplayError(outcome)))

\* response.into_string()
into_string(body) ==
    IF body.readable THEN OkDoc(Some(body.text)) ELSE Err(BodyErrorText(body))

\* Variant of fetch_library_documentation whose last arm is Err(e) => Err(e).
fetch_library_documentation_propagate(outcome) ==
    IF outcome.kind = "join" THEN Err(JoinErrorText)
    ELSE IF outcome.kind = "ok" THEN
        LET text == into_string(outcome.body)
        IN  IF ~text.ok THEN text
            ELSE IF Unwrap(text.doc) = <<>>
                    \/ Unwrap(text.doc) = NO_CONTENT_AVAILABLE
                    \/ Unwrap(text.doc) = NO_CONTEXT_DATA_AVAILABLE
                 THEN OkDoc(None)
                 ELSE OkDoc(Some(Unwrap(text.doc)))
    ELSE IF outcome.kind = "status" /\ outcome.status = 429
         THEN OkDoc(Some(RATE_LIMITED))
    ELSE IF outcome.kind = "status" /\ outcome.status = 404
         THEN OkDoc(Some(NOT_EXIST))
    ELSE IF outcome.kind = "status" /\ outcome.status = 401
         THEN OkDoc(Some(UNAUTHORIZED))
    ELSE Err(DisplayError(outcome))

\* Variant of fetch_library_documentation without the 404 arm.
fetch_library_documentation_no_404(outcome) ==
    IF outcome.kind = "join" THEN Err(JoinErrorText)
    ELSE IF outcome.kind = "ok" THEN
        LET text == into_string(outcome.body)
        IN  IF ~text.ok THEN text
            ELSE IF Unwrap(text.doc) = <<>>
                    \/ Unwrap(text.doc) = NO_CONTENT_AVAILABLE
                    \/ Unwrap(text.doc) = NO_CONTEXT_DATA_AVAILABLE
                 THEN OkDoc(None)
                 ELSE OkDoc(Some(Unwrap(text.doc)))
    ELSE IF outcome.kind = "status" /\ outcome.status = 429
         THEN OkDoc(Some(RATE_LIMITED))
    ELSE IF outcome.kind = "status" /\ outcome.status = 401
         THEN OkDoc(Some(UNAUTHORIZED))
    ELSE OkDoc(Some(FAILED_FETCH \o DisplayError(outcome)))

\* Variant of fetch_library_documentation that tests the sentinels with
\* starts_with instead of ==.
fetch_library_documentation_starts_with(outcome) ==
    IF outcome.kind = "join" THEN Err(JoinErrorText)
    ELSE IF outcome.kind = "ok" THEN
        LET text == into_string(outcome.body)
        IN  IF ~text.ok THEN text
            ELSE IF Unwrap(text.doc) = <<>>
                    \/ <<Head(Unwrap(text.doc))>> = NO_CONTENT_AVAILABLE
                    \/ <<Head(Unwrap(text.doc))>> = NO_CONTEXT_DATA_AVAILABLE
                 THEN OkDoc(None)
                 ELSE OkDoc(Some(Unwrap(text.doc)))
    ELSE IF outcome.kind = "status" /\ outcome.status = 429
         THEN OkDoc(Some(RATE_LIMITED))
    ELSE IF outcome.kind = "status" /\ outcome.status = 404
         THEN OkDoc(Some(NOT_EXIST))
    ELSE IF outcome.kind = "status" /\ outcome.status = 401
         THEN OkDoc(Some(UNAUTHORIZED))
    ELSE OkDoc(Some(FAILED_FETCH \o DisplayError(outcome)))

\* The part of fetch_library_documentation after the blocking task has finished.
fetch_library_documentation(outcome) ==
    IF outcome.kind = "join" THEN Err(JoinErrorText)
    ELSE IF outcome.kind = "ok" THEN
        LET text == into_string(outcome.body)
        IN  IF ~text.ok THEN text
            ELSE IF Unwrap(text.doc) = <<>>
                    \/ Unwrap(text.doc) = NO_CONTENT_AVAILABLE
                    \/ Unwrap(text.doc) = NO_CONTEXT_DATA_AVAILABLE
                 THEN OkDoc(None)
                 ELSE OkDoc(Some(Unwrap(text.doc)))
    ELSE IF outcome.kind = "status" /\ outcome.status = 429
         THEN OkDoc(Some(RATE_LIMITED))
    ELSE IF outcome.kind = "status" /\ outcome.status = 404
         THEN OkDoc(Some(NOT_EXIST))
    ELSE IF outcome.kind = "status" /\ outcome.status = 401
         THEN OkDoc(Some(UNAUTHORIZED))
    ELSE OkDoc(Some(FAILED_FETCH \o DisplayError(outcome)))

\* ------------------------------------------------------------------------
\* format_search_results
\* ------------------------------------------------------------------------
NO_LIBRARIES_FOUND == <<"No documentation libraries found matching your query.">>
BLOCK_SEPARATOR == <<"\n----------\n">>

\* [String]::join(sep)
RECURSIVE Join(_, _)
Join(parts, sep) ==
    IF parts = <<>> THEN <<>>
    ELSE IF Len(parts) = 1 THEN Head(parts)
    ELSE Head(parts) \o sep \o Join(Tail(parts), sep)

\* format!("{:.1}", trust_score); a score is held in hundredths
format_trust_score(h) ==
    LET tenths == (h + 5) \div 10
    IN  <<ToString(tenths \div 10), ".", ToString(tenths % 10)>>

\* Variant of format_result without the test for the -1 sentinel.
format_result_no_sentinel(result) ==
    LET parts ==
            << <<"- Title: ">> \o result.title,
               <<"- Context7-compatible library ID: ">> \o result.id,
               <<"- Description: ">> \o result.description >>
            \o (IF IsSome(result.total_snippets)
                THEN << <<"- Code Snippets: ", ToString(Unwrap(result.total_snippets))>> >>
                ELSE <<>>)
            \o (IF IsSome(result.trust_score) /\ Unwrap(result.trust_score) >= 0
                THEN << <<"- Trust Score: ">> \o format_trust_score(Unwrap(result.trust_score)) >>
                ELSE <<>>)
            \o (IF IsSome(result.versions) /\ Unwrap(result.versions) # <<>>
                THEN << <<"- Versions: ">> \o Join(Unwrap(result.versions), <<", ">>) >>
                ELSE <<>>)
    IN  Join(parts, <<"\n">>)

\* Variant of format_result that takes any non-positive number for the sentinel.
format_result_hide_zero(result) ==
    LET parts ==
            << <<"- Title: ">> \o result.title,
               <<"- Context7-compatible library ID: ">> \o result.id,
               <<"- Description: ">> \o result.description >>
            \o (IF IsSome(result.total_snippets) /\ Unwrap(result.total_snippets) > 0
                THEN << <<"- Code Snippets: ", ToString(Unwrap(result.total_snippets))>> >>
                ELSE <<>>)
            \o (IF IsSome(result.trust_score) /\ Unwrap(result.trust_score) > 0
                THEN << <<"- Trust Score: ">> \o format_trust_score(Unwrap(result.trust_score)) >>
                ELSE <<>>)
            \o (IF IsSome(result.versions) /\ Unwrap(result.versions) # <<>>
                THEN << <<"- Versions: ">> \o Join(Unwrap(result.versions), <<", ">>) >>
                ELSE <<>>)
    IN  Join(parts, <<"\n">>)

\* the closure of format_search_results: one block per result
format_result(result) ==
    LET parts ==
            << <<"- Title: ">> \o result.title,
               <<"- Context7-compatible library ID: ">> \o result.id,
               <<"- Description: ">> \o result.description >>
            \o (IF IsSome(result.total_snippets) /\ Unwrap(result.total_snippets) # -1
                THEN << <<"- Code Snippets: ", ToString(Unwrap(result.total_snippets))>> >>
                ELSE <<>>)
            \o (IF IsSome(result.trust_score) /\ Unwrap(result.trust_score) >= 0
                THEN << <<"- Trust Score: ">> \o format_trust_score(Unwrap(result.trust_score)) >>
                ELSE <<>>)
            \o (IF IsSome(result.versions) /\ Unwrap(result.versions) # <<>>
                THEN << <<"- Versions: ">> \o Join(Unwrap(result.versions), <<", ">>) >>
                ELSE <<>>)
    IN  Join(parts, <<"\n">>)

RECURSIVE MapFormatResult(_)
MapFormatResult(results) ==
    IF results = <<>> THEN <<>>
    ELSE <<format_result(Head(results))>> \o MapFormatResult(Tail(results))

\* Variant of format_search_results that renders a repeated match once.
format_search_results_dedup(results) ==
    LET RECURSIVE Dedup(_)
        Dedup(rs) ==
            IF rs = <<>> THEN <<>>
            ELSE LET t == Dedup(SubSeq(rs, 1, Len(rs) - 1))
                 IN  IF \E i \in 1..Len(t) : t[i] = rs[Len(rs)]
                     THEN t ELSE Append(t, rs[Len(rs)])
    IN  IF results = <<>> THEN NO_LIBRARIES_FOUND
        ELSE Join(MapFormatResult(Dedup(results)), BLOCK_SEPARATOR)

format_search_results(results) ==
    IF results = <<>> THEN NO_LIBRARIES_FOUND
    ELSE Join(MapFormatResult(results), BLOCK_SEPARATOR)

\* ------------------------------------------------------------------------
\* Context7Tool::call_tool
\* ------------------------------------------------------------------------
PREAMBLE ==
    <<"Available Libraries (top matches):\n\nEach result includes:\n- Library ID: Context7-compatible identifier (format: /org/project)\n- Name: Library or package name\n- Description: Short summary\n- Code Snippets: Number of available code examples\n- Trust Score: Authority indicator\n- Versions: List of versions if available. Use one of those versions if the user provides a version in their query. The format of the version is /org/project/version.\n\nFor best results, select libraries based on name match, trust score, snippet coverage, and relevance to your use case.\n\n----------\n\n">>
DOCS_NOT_FOUND ==
    <<"Documentation not found or not finalized for this library. This might have happened because you used an invalid Context7-compatible library ID. To get a valid Context7-compatible library ID, use the 'resolve-library-id' with the package name you wish to retrieve documentation for.">>
FAILED_RETRIEVE == <<"Failed to retrieve library documentation data from Context7: ">>
ERROR_FETCHING == <<"Error fetching library documentation: ">>

\* Content::text(s)
ContentText(s) == [type |-> "text", text |-> s]

\* Ok(CallToolResult::success(vec![Content::text(s)]))
Success(s) ==
    [kind |-> "success", content |-> <<ContentText(s)>>, code |-> "", message |-> <<>>]

\* Err(ErrorData::invalid_request(message, None))
invalid_request(message) ==
    [kind |-> "error", content |-> <<>>, code |-> "invalid_request", message |-> message]

\* State of one invocation of call_tool.
\*   pc       "idle" (no invocation), "awaiting" (suspended on the blocking
\*            task), "done" (call_tool has returned)
\*   op       which client call was made: "search", "fetch" or "none"
\*   outbound the requests handed to request.call(), in order
\*   outcome  what the blocking task produced
\*   result   what the client call returned to call_tool
\*   response what call_tool returned
NoRequest == [name |-> "", arguments |-> [some |-> FALSE, map |-> <<>>]]
Idle ==
    [pc |-> "idle", request |-> NoRequest, op |-> "none", outbound |-> <<>>,
     outcome |-> None, result |-> None, response |-> None]

Rejected(request, error) ==
    [pc |-> "done", request |-> request, op |-> "none", outbound |-> <<>>,
     outcome |-> None, result |-> None, response |-> Some(error)]

Awaiting(request, op, outbound) ==
    [pc |-> "awaiting", request |-> request, op |-> op, outbound |-> <<outbound>>,
     outcome |-> None, result |-> None, response |-> None]

\* Variant of the resolve-library-id arm that builds and sends the request
\* before it looks at the argument.
resolve_begin_eager(cl, request) ==
    LET library_name == get_str(request.arguments, "libraryName")
        query == IF library_name = None THEN <<>> ELSE Unwrap(library_name)
    IN  IF library_name = None
        THEN [Rejected(request, invalid_request(<<"Missing libraryName parameter">>))
                EXCEPT !.outbound = <<search_request(cl, query)>>]
        ELSE Awaiting(request, "search", search_request(cl, query))

\* The "resolve-library-id" arm up to the await.
resolve_begin(cl, request) ==
    LET library_name == get_str(request.arguments, "libraryName")
    IN  IF library_name = None
        THEN Rejected(request, invalid_request(<<"Missing libraryName parameter">>))
        ELSE Awaiting(request, "search", search_request(cl, Unwrap(library_name)))

\* The "get-library-docs" arm up to the await.
docs_begin(cl, request) ==
    LET library_id == get_str(request.arguments, "context7CompatibleLibraryID")
        topic == get_str(request.arguments, "topic")
        tokens == get_u32(request.arguments, "tokens")
    IN  IF library_id = None
        THEN Rejected(request,
                      invalid_request(<<"Missing context7CompatibleLibraryID parameter">>))
        ELSE Awaiting(request, "fetch",
                      fetch_request(cl, Unwrap(library_id), tokens, topic))

\* The fallback arm.
unknown_tool(request) ==
    Rejected(request, invalid_request(<<"Unknown tool: ", request.name>>))

\* Variant of call_tool_begin that matches the tool name without regard to case.
call_tool_begin_ignore_case(cl, request) ==
    IF request.name \in {RESOLVE_LIBRARY_ID, "Resolve-Library-Id"}
    THEN resolve_begin(cl, request)
    ELSE IF request.name = GET_LIBRARY_DOCS THEN docs_begin(cl, request)
    ELSE unknown_tool(request)

\* call_tool from its entry to its first suspension point or early return.
call_tool_begin(cl, request) ==
    IF request.name = RESOLVE_LIBRARY_ID THEN resolve_begin(cl, request)
    ELSE IF request.name = GET_LIBRARY_DOCS THEN docs_begin(cl, request)
    ELSE unknown_tool(request)

\* Variant of resolve_response whose Err arm returns the error to the runtime.
resolve_response_propagate(result) ==
    IF result.ok THEN
        IF IsSome(result.error)
        THEN Success(Unwrap(result.error))
        ELSE Success(PREAMBLE \o format_search_results(result.results))
    ELSE [kind |-> "error", content |-> <<>>, code |-> "internal_error",
          message |-> result.err]

\* Variant of resolve_response that looks at the error only when there are
\* no matches to render.
resolve_response_matches_first(result) ==
    IF result.ok THEN
        IF IsSome(result.error) /\ result.results = <<>>
        THEN Success(Unwrap(result.error))
        ELSE Success(PREAMBLE \o format_search_results(result.results))
    ELSE Success(FAILED_RETRIEVE \o result.err)

\* match self.client.search_libraries(library_name).await { ... }
resolve_response(result) ==
    IF result.ok THEN
        IF IsSome(result.error)
        THEN Success(Unwrap(result.error))
        ELSE Success(PREAMBLE \o format_search_results(result.results))
    ELSE Success(FAILED_RETRIEVE \o result.err)

\* Variant of docs_response whose Ok(None) arm returns the Err arm's text.
docs_response_none_as_error(result) ==
    IF result.ok /\ IsSome(result.doc)
    THEN Success(Unwrap(result.doc))
    ELSE Success(ERROR_FETCHING \o result.err)

\* match self.client.fetch_library_documentation(..).await { ... }
docs_response(result) ==
    IF result.ok THEN
        IF IsSome(result.doc)
        THEN Success(Unwrap(result.doc))
        ELSE Success(DOCS_NOT_FOUND)
    ELSE Success(ERROR_FETCHING \o result.err)

\* call_tool from the completion of the blocking task to its return.
call_tool_resume(call, outcome) ==
    LET result == IF call.op = "search"
                  THEN search_libraries(outcome)
                  ELSE fetch_library_documentation(outcome)
        response == IF call.op = "search"
                    THEN resolve_response(result)
                    ELSE docs_response(result)
    IN  [call EXCEPT !.pc = "done", !.outcome = Some(outcome),
                     !.result = Some(result), !.response = Some(response)]

\* ------------------------------------------------------------------------
\* Context7Tool::list_tools
\* ------------------------------------------------------------------------
\* one entry of a schema's "properties"
Property(type, description) == [type |-> type, description |-> description]

\* Tool { name, description, input_schema, .. }
Tool(name, description, properties, required) ==
    [name |-> name, description |-> description,
     input_schema |-> [type |-> "object", properties |-> properties,
                       required |-> required]]

resolve_schema_properties ==
    "libraryName" :> Property("string", "Library name to search for and retrieve a Context7-compatible library ID.")

docs_schema_properties ==
    "context7CompatibleLibraryID" :> Property("string", "Exact Context7-compatible library ID (e.g., '/mongodb/docs', '/vercel/next.js', '/supabase/supabase', '/vercel/next.js/v14.3.0-canary.87') retrieved from 'resolve-library-id' or directly from user query in the format '/org/project' or '/org/project/version'.")
    @@ "tokens" :> Property("number", "Maximum number of tokens of documentation to retrieve (default: 5000). Higher values provide more context but consume more tokens.")
    @@ "topic" :> Property("string", "Topic to focus documentation on (e.g., 'hooks', 'routing').")

resolve_tool ==
    Tool("resolve-library-id",
         "Resolves a package/product name to a Context7-compatible library ID and returns a list of matching libraries.\n\nYou MUST call this function before 'get-library-docs' to obtain a valid Context7-compatible library ID UNLESS the user explicitly provides a library ID in the format '/org/project' or '/org/project/version' in their query.\n\nSelection Process:\n1. Analyze the query to understand what library/package the user is looking for\n2. Return the most relevant match based on:\n- Name similarity to the query (exact matches prioritized)\n- Description relevance to the query's intent\n- Documentation coverage (prioritize libraries with higher Code Snippet counts)\n- Trust score (consider libraries with scores of 7-10 more authoritative)\n\nResponse Format:\n- Return the selected library ID in a clearly marked section\n- Provide a brief explanation for why this library was chosen\n- If multiple good matches exist, acknowledge this but proceed with the most relevant one\n- If no good matches exist, clearly state this and suggest query refinements\n\nFor ambiguous queries, request clarification before proceeding with a best-guess match.",
         resolve_schema_properties, <<"libraryName">>)

docs_tool ==
    Tool("get-library-docs",
         "Fetches up-to-date documentation for a library. You must call 'resolve-library-id' first to obtain the exact Context7-compatible library ID required to use this tool, UNLESS the user explicitly provides a library ID in the format '/org/project' or '/org/project/version' in their query.",
         docs_schema_properties, <<"context7CompatibleLibraryID">>)

\* Variant of list_tools that lists tokens among the required fields.
list_tools_tokens_required ==
    [tools |-> <<resolve_tool,
                 [docs_tool EXCEPT !.input_schema.required =
                      <<"context7CompatibleLibraryID", "tokens">>]>>,
     next_cursor |-> None]

\* Ok(ListToolsResult { tools, next_cursor: None })
list_tools == [tools |-> <<resolve_tool, docs_tool>>, next_cursor |-> None]

\* ------------------------------------------------------------------------
\* Inputs
\* ------------------------------------------------------------------------
ToolNames == {RESOLVE_LIBRARY_ID, GET_LIBRARY_DOCS, "Resolve-Library-Id", ""}

NoArguments == [some |-> FALSE, map |-> <<>>]
Arguments(map) == [some |-> TRUE, map |-> map]

ArgumentMaps ==
    { NoArguments,
      Arguments(<<>>),
      Arguments("libraryName" :> JStr(<<"nix">>)),
      Arguments("libraryName" :> JNum(7)),
      Arguments("context7CompatibleLibraryID" :> JStr(<<"/", "nixos/nix">>)),
      Arguments("context7CompatibleLibraryID" :> JNum(7)),
      Arguments("libraryName" :> JStr(<<"nix">>)
                @@ "context7CompatibleLibraryID" :> JStr(<<"/", "nixos/nix">>)) }

Requests == { [name |-> n, arguments |-> a] : n \in ToolNames, a \in ArgumentMaps }

Clients ==
    { Context7Client(None, FALSE), Context7Client(Some(<<"test-api-key">>), TRUE) }

CallIds == 1..MaxCalls

\* ------------------------------------------------------------------------
\* State machine
\* ------------------------------------------------------------------------
\* client    the Context7Client built by Context7Tool::new
\* calls     the invocations of call_tool and list_tools
\* failures  history: how many invocations have ended in a failure so far
\*           (counted by SpecSession only; the program keeps no such count)
VARIABLES client, calls, failures
vars == <<client, calls, failures>>

\* run_server: the tool (and its client) is built once, no call is running.
Init ==
    /\ client \in Clients
    /\ calls = [c \in CallIds |-> Idle]
    /\ failures = 0

\* The protocol runtime invokes call_tool; it runs until it rejects the
\* call or suspends on the blocking HTTP task.
CallTool(c) ==
    \E request \in Requests :
        /\ calls[c].pc = "idle"
        /\ calls' = [calls EXCEPT ![c] = call_tool_begin(client, request)]
        /\ UNCHANGED <<client, failures>>

\* Variant of Resume that sends the request once more after a 429.
ResumeRetry(c) ==
    /\ calls[c].pc = "awaiting"
    /\ \E outcome \in (IF calls[c].op = "search" THEN SearchOutcomes ELSE FetchOutcomes) :
           calls' = [calls EXCEPT ![c] =
               IF outcome.kind = "status" /\ outcome.status = 429
                  /\ Len(calls[c].outbound) < 2
               THEN [calls[c] EXCEPT !.outbound = @ \o <<calls[c].outbound[1]>>]
               ELSE call_tool_resume(calls[c], outcome)]
    /\ UNCHANGED <<client, failures>>

\* Variant of Resume that keeps the last response in a buffer all calls
\* share: a call that finishes while another call's response has not been
\* sent yet returns that response.
ResumeShared(c) ==
    /\ calls[c].pc = "awaiting"
    /\ \E outcome \in (IF calls[c].op = "search" THEN SearchOutcomes ELSE FetchOutcomes) :
           calls' = [calls EXCEPT ![c] =
               IF \E d \in CallIds : calls[d].pc = "done" /\ calls[d].op = calls[c].op
               THEN [call_tool_resume(calls[c], outcome) EXCEPT !.response =
                        calls[CHOOSE d \in CallIds :
                                  calls[d].pc = "done" /\ calls[d].op = calls[c].op].response]
               ELSE call_tool_resume(calls[c], outcome)]
    /\ UNCHANGED <<client, failures>>

\* The blocking task finishes and call_tool runs to its return.
Resume(c) ==
    /\ calls[c].pc = "awaiting"
    /\ \E outcome \in (IF calls[c].op = "search" THEN SearchOutcomes ELSE FetchOutcomes) :
           calls' = [calls EXCEPT ![c] = call_tool_resume(calls[c], outcome)]
    /\ UNCHANGED <<client, failures>>

\* Variant of Return in which a protocol-level error ends the service: the
\* invocation that was answered with an error is never cleared.
ReturnUnlessError(c) ==
    /\ calls[c].pc = "done"
    /\ Unwrap(calls[c].response).kind # "error"
    /\ calls' = [calls EXCEPT ![c] = Idle]
    /\ UNCHANGED <<client, failures>>

\* The runtime has sent the response; the invocation is over.
Return(c) ==
    /\ calls[c].pc = "done"
    /\ calls' = [calls EXCEPT ![c] = Idle]
    /\ UNCHANGED <<client, failures>>

Next == \E c \in CallIds : CallTool(c) \/ Resume(c) \/ Return(c)

Spec == Init /\ [][Next]_vars

\* ------------------------------------------------------------------------
\* One invocation at a time, with the full range of arguments, client
\* configurations and search results
\* ------------------------------------------------------------------------
JAbsent == [t |-> "absent", s |-> <<>>, hi |-> 0, n |-> 0, frac |-> FALSE]

ArgumentKeys == {"libraryName", "context7CompatibleLibraryID", "tokens", "topic"}

\* the argument map holding the given values, without the absent ones
MakeArguments(libraryName, libraryID, tokens, topic) ==
    LET v == [k \in ArgumentKeys |->
                 CASE k = "libraryName" -> libraryName
                   [] k = "context7CompatibleLibraryID" -> libraryID
                   [] k = "tokens" -> tokens
                   [] OTHER -> topic]
    IN  Arguments([k \in {x \in ArgumentKeys : v[x].t # "absent"} |-> v[k]])

LibraryNameValues == { JAbsent, JStr(<<"nix">>), JStr(<<"react", " ", "query">>) }

LibraryIdValues ==
    { JAbsent, JStr(<<"/", "nixos/nix">>), JStr(<<"a/b">>),
      JStr(<<"/", "/", "x">>), JStr(<<>>) }

TokensValues ==
    { JAbsent, JNum(100), JNum(999), JNum(1000), JNum(7000), JNum(0),
      JBig(1, 100), JBig(2, 7000), JNum(-5), JFloat(1500), JStr(<<"7000">>) }

TopicValues == { JAbsent, JStr(<<"hooks">>), JStr(<<>>), JNum(3) }

DetailRequests ==
    { [name |-> RESOLVE_LIBRARY_ID, arguments |-> MakeArguments(ln, JAbsent, JAbsent, JAbsent)] :
        ln \in LibraryNameValues }
    \cup
    { [name |-> GET_LIBRARY_DOCS, arguments |-> MakeArguments(JAbsent, id, tk, tp)] :
        id \in LibraryIdValues, tk \in TokensValues, tp \in TopicValues }

AllClients ==
    { Context7Client(k, i) : k \in {None, Some(<<"test-api-key">>)}, i \in BOOLEAN }

\* results carrying every combination of the optional fields
WireItem(totalSnippets, trustScore, versions) ==
    [id |-> <<"/", "org/project">>, title |-> <<"Project">>,
     description |-> <<"A project">>,
     totalSnippets |-> totalSnippets, trustScore |-> trustScore,
     versions |-> versions]

WireItems ==
    { WireItem(sn, tr, vs) :
        sn \in { None, Some(-1), Some(0), Some(1241) },
        tr \in { None, Some(-100), Some(0), Some(874) },
        vs \in { None, Some(<<>>), Some(<< <<"v1">> >>),
                 Some(<< <<"2.18.0">>, <<"2.17.0">> >>) } }

\* "results" arrays of up to MaxMatches elements, repeated elements and
\* every order included
ResultItems == { WireNix, WireBare, WireItem(None, None, None) }

ResultLists == UNION { [1..n -> ResultItems] : n \in 0..MaxMatches }

DetailSearchOutcomes ==
    { Outcome("ok", 200, Body(TRUE, TRUE, TRUE, <<w>>, "null", <<>>, <<>>)) : w \in WireItems }
    \cup { Outcome("ok", 200, Body(TRUE, TRUE, TRUE, ws, "null", <<>>, <<>>)) : ws \in ResultLists }
    \cup SearchOutcomes

InitDetail ==
    /\ client \in AllClients
    /\ calls = [c \in CallIds |-> Idle]
    /\ failures = 0

CallToolDetail ==
    \E request \in DetailRequests :
        /\ calls[1].pc = "idle"
        /\ calls' = [calls EXCEPT ![1] = call_tool_begin(client, request)]
        /\ UNCHANGED <<client, failures>>

ResumeDetail ==
    /\ calls[1].pc = "awaiting"
    /\ \E outcome \in (IF calls[1].op = "search" THEN DetailSearchOutcomes ELSE FetchOutcomes) :
           calls' = [calls EXCEPT ![1] = call_tool_resume(calls[1], outcome)]
    /\ UNCHANGED <<client, failures>>

NextDetail == CallToolDetail \/ ResumeDetail \/ Return(1)

SpecDetail == InitDetail /\ [][NextDetail]_vars

\* ------------------------------------------------------------------------
\* Vocabulary of the properties (stated from the request, not from call_tool)
\* ------------------------------------------------------------------------
Done(c) == calls[c].pc = "done"
Request(c) == calls[c].request
Response(c) == Unwrap(calls[c].response)
UpstreamOutcome(c) == Unwrap(calls[c].outcome)
ClientResult(c) == Unwrap(calls[c].result)

HasString(request, key) ==
    /\ request.arguments.some
    /\ key \in DOMAIN request.arguments.map
    /\ request.arguments.map[key].t = "string"

KnownTool(request) == request.name \in {"resolve-library-id", "get-library-docs"}

RequiredArgument(request) ==
    IF request.name = "resolve-library-id" THEN "libraryName"
    ELSE "context7CompatibleLibraryID"

\* a call that names one of the two tools and carries its required string
WellFormed(request) ==
    KnownTool(request) /\ HasString(request, RequiredArgument(request))

SearchDone(c) == Done(c) /\ calls[c].op = "search"
FetchDone(c) == Done(c) /\ calls[c].op = "fetch"

\* a 2xx search body that deserializes into a SearchResponse
Parseable(body) ==
    /\ body.readable /\ body.syntax /\ body.hasResults
    /\ body.errT # "number"

UpstreamFailure(outcome) == outcome.kind \in {"status", "transport"}

\* ------------------------------------------------------------------------
\* C1: every well-formed tool call returns a success envelope holding exactly
\* one text content item, whatever the upstream outcome (2xx, 429, 401, 404,
\* other status, transport failure, unparseable body, hard client failure);
\* a protocol-level error is returned only for malformed calls.
\* ------------------------------------------------------------------------
C1_SuccessEnvelope ==
    \A c \in CallIds :
        Done(c) =>
            /\ WellFormed(Request(c)) =>
                  /\ Response(c).kind = "success"
                  /\ Len(Response(c).content) = 1
                  /\ Response(c).content[1].type = "text"
                  /\ calls[c].outcome # None
            /\ Response(c).kind = "error" => ~WellFormed(Request(c))

\* a resolve call whose client call failed hard has been answered
C1_Witness ==
    \E c \in CallIds :
        /\ Done(c) /\ WellFormed(Request(c))
        /\ calls[c].result # None /\ ~ClientResult(c).ok
        /\ calls[c].op = "search"
        /\ Response(c).kind = "success"

\* ------------------------------------------------------------------------
\* C2: a call that call_tool rejects (missing required argument, unknown
\* tool) has issued no outbound HTTP request.
\* ------------------------------------------------------------------------
C2_RejectBeforeNetwork ==
    \A c \in CallIds :
        (calls[c].response # None /\ Response(c).kind = "error") =>
            /\ calls[c].outbound = <<>>
            /\ calls[c].outcome = None
            /\ calls[c].result = None

\* a resolve-library-id call without libraryName has been rejected
C2_Witness ==
    \E c \in CallIds :
        /\ Done(c) /\ Response(c).kind = "error"
        /\ Request(c).name = "resolve-library-id"
        /\ calls[c].outbound = <<>>

\* ------------------------------------------------------------------------
\* C3: a resolve-library-id call without libraryName and a get-library-docs
\* call without context7CompatibleLibraryID are rejected with the protocol's
\* invalid-params error kind.
\* ------------------------------------------------------------------------
C3_InvalidParams ==
    \A c \in CallIds :
        (Done(c) /\ KnownTool(Request(c)) /\ ~WellFormed(Request(c))) =>
            /\ Response(c).kind = "error"
            /\ Response(c).code = "invalid_params"

C5_OneRequestPerCall ==
    \A c \in CallIds :
        /\ calls[c].pc = "awaiting" =>
              /\ Len(calls[c].outbound) = 1
              /\ calls[c].response = None
        /\ (Done(c) /\ Response(c).kind = "success") =>
              /\ Len(calls[c].outbound) = 1
              /\ calls[c].outbound[1].method = "GET"
              /\ calls[c].outcome # None
        /\ Len(calls[c].response) <= 1

\* a call that met a 429 has been answered after one request
C5_Witness ==
    \E c \in CallIds :
        /\ Done(c) /\ calls[c].outcome # None
        /\ UpstreamOutcome(c).kind = "status" /\ UpstreamOutcome(c).status = 429
        /\ Len(calls[c].outbound) = 1
        /\ Response(c).kind = "success"

\* ------------------------------------------------------------------------
\* C6 (as stated): fetch_library_documentation never returns Err, whatever
\* the upstream or runtime outcome.
\* ------------------------------------------------------------------------
C6_FetchNeverErr ==
    \A c \in CallIds : FetchDone(c) => ClientResult(c).ok

\* C6 (amended): fetch_library_documentation returns Err exactly when the
\* blocking task fails to join or the body of a 2xx response cannot be
\* read; every failing status and every transport failure gives Ok(Some(text)).
C6_FetchErrOnlyUnreadable ==
    \A c \in CallIds :
        FetchDone(c) =>
            /\ ~ClientResult(c).ok <=>
                  \/ UpstreamOutcome(c).kind = "join"
                  \/ UpstreamOutcome(c).kind = "ok" /\ ~UpstreamOutcome(c).body.readable
            /\ UpstreamFailure(UpstreamOutcome(c)) =>
                  ClientResult(c).ok /\ ClientResult(c).doc # None

\* a fetch that met an unspecific failing status returned Ok(Some(text))
C6_Witness ==
    \E c \in CallIds :
        /\ FetchDone(c)
        /\ UpstreamOutcome(c).kind = "status" /\ UpstreamOutcome(c).status = 500
        /\ ClientResult(c).ok /\ ClientResult(c).doc # None

\* ------------------------------------------------------------------------
\* C7 (as stated): search_libraries returns Err only when the body of a 2xx
\* response cannot be parsed; every other outcome, a failure of the blocking
\* call included, gives Ok with a soft error field.
\* ------------------------------------------------------------------------
C7_SearchErrOnlyUnparseable ==
    \A c \in CallIds :
        SearchDone(c) =>
            IF UpstreamOutcome(c).kind = "ok"
            THEN ~ClientResult(c).ok => ~Parseable(UpstreamOutcome(c).body)
            ELSE ClientResult(c).ok /\ ClientResult(c).error # None

\* C7 (amended): search_libraries returns Err exactly when the body of a 2xx
\* response cannot be parsed or the blocking task fails to join; every
\* failing status and every transport failure gives Ok with the error set.
C7_SearchErrUnparseableOrJoin ==
    \A c \in CallIds :
        SearchDone(c) =>
            /\ ~ClientResult(c).ok <=>
                  \/ UpstreamOutcome(c).kind = "join"
                  \/ UpstreamOutcome(c).kind = "ok" /\ ~Parseable(UpstreamOutcome(c).body)
            /\ UpstreamFailure(UpstreamOutcome(c)) =>
                  ClientResult(c).ok /\ ClientResult(c).error # None

\* a search that met a transport failure returned Ok with the error set
C7_Witness ==
    \E c \in CallIds :
        /\ SearchDone(c)
        /\ UpstreamOutcome(c).kind = "transport"
        /\ ClientResult(c).ok /\ ClientResult(c).error # None

\* ------------------------------------------------------------------------
\* C8 (as stated): every SearchOutcome returned by search_libraries has
\* error set => matches empty, 2xx bodies carrying an error included.
\* ------------------------------------------------------------------------
C8_ErrorImpliesNoMatches ==
    \A c \in CallIds :
        (SearchDone(c) /\ ClientResult(c).ok /\ ClientResult(c).error # None) =>
            ClientResult(c).results = <<>>

\* C8 (amended): every SearchOutcome that search_libraries builds for a
\* failing status or a transport failure has error set and matches empty;
\* an outcome with error set and matches not empty comes only from a 2xx
\* body that carries both.
C8_ErrorImpliesNoMatchesOnFailure ==
    \A c \in CallIds :
        (SearchDone(c) /\ ClientResult(c).ok) =>
            /\ UpstreamFailure(UpstreamOutcome(c)) =>
                  ClientResult(c).error # None /\ ClientResult(c).results = <<>>
            /\ (ClientResult(c).error # None /\ ClientResult(c).results # <<>>) =>
                  /\ UpstreamOutcome(c).kind = "ok"
                  /\ UpstreamOutcome(c).body.errT = "string"
                  /\ UpstreamOutcome(c).body.results # <<>>

\* a search that met a 401 returned error set and no matches
C8_Witness ==
    \E c \in CallIds :
        /\ SearchDone(c)
        /\ UpstreamOutcome(c).kind = "status" /\ UpstreamOutcome(c).status = 401
        /\ ClientResult(c).error # None /\ ClientResult(c).results = <<>>

\* ------------------------------------------------------------------------
\* C9 (as stated): for every 2xx search response with a parseable body the
\* matches are the parsed results array, in order, and error = None.
\* ------------------------------------------------------------------------
SameMatches(results, wire) ==
    /\ Len(results) = Len(wire)
    /\ \A i \in 1..Len(wire) :
          /\ results[i].id = wire[i].id
          /\ results[i].title = wire[i].title
          /\ results[i].description = wire[i].description
          /\ results[i].total_snippets = wire[i].totalSnippets
          /\ results[i].trust_score = wire[i].trustScore
          /\ results[i].versions = wire[i].versions

C9_ParsedBodyNoError ==
    \A c \in CallIds :
        (SearchDone(c) /\ UpstreamOutcome(c).kind = "ok"
            /\ Parseable(UpstreamOutcome(c).body)) =>
            /\ ClientResult(c).ok
            /\ SameMatches(ClientResult(c).results, UpstreamOutcome(c).body.results)
            /\ ClientResult(c).error = None

\* C9 (amended): for every 2xx search response with a parseable body the
\* matches are the parsed results array, in order, and error is the body's
\* error string, None when the body's error is null or absent.
C9_ParsedBodyVerbatim ==
    \A c \in CallIds :
        (SearchDone(c) /\ UpstreamOutcome(c).kind = "ok"
            /\ Parseable(UpstreamOutcome(c).body)) =>
            /\ ClientResult(c).ok
            /\ SameMatches(ClientResult(c).results, UpstreamOutcome(c).body.results)
            /\ ClientResult(c).error =
                  IF UpstreamOutcome(c).body.errT = "string"
                  THEN <<UpstreamOutcome(c).body.errS>>
                  ELSE <<>>

\* a search returned two matches in the order of the body, with no error
C9_Witness ==
    \E c \in CallIds :
        /\ SearchDone(c) /\ UpstreamOutcome(c).kind = "ok"
        /\ Parseable(UpstreamOutcome(c).body)
        /\ Len(ClientResult(c).results) = 2
        /\ ClientResult(c).results[1].id # ClientResult(c).results[2].id
        /\ ClientResult(c).results[1].total_snippets = <<1241>>
        /\ ClientResult(c).error = None

\* ------------------------------------------------------------------------
\* C10: search_libraries maps failures by status code into disjoint cases:
\* 429 -> no matches, the rate-limit text; 401 -> no matches, the
\* unauthorized text; every other failing status (404 included) and every
\* transport failure -> no matches, "Failed to search libraries: " + cause.
\* ------------------------------------------------------------------------
C10_SearchFailureTexts ==
    \A c \in CallIds :
        (SearchDone(c) /\ UpstreamFailure(UpstreamOutcome(c))) =>
            /\ ClientResult(c).ok
            /\ ClientResult(c).results = <<>>
            /\ Len(ClientResult(c).error) = 1
            /\ LET o == UpstreamOutcome(c)
                   text == ClientResult(c).error[1]
               IN  /\ (o.kind = "status" /\ o.status = 429) <=>
                         text = <<"Rate limited due to too many requests. Please try again later.">>
                   /\ (o.kind = "status" /\ o.status = 401) <=>
                         text = <<"Unauthorized. Please check your API key.">>
                   /\ ~(o.kind = "status" /\ o.status \in {429, 401}) <=>
                         /\ Len(text) > 1
                         /\ text[1] = "Failed to search libraries: "
                         /\ SubSeq(text, 2, Len(text)) = DisplayError(o)

\* a search that met a 404 returned the generic failure text
C10_Witness ==
    \E c \in CallIds :
        /\ SearchDone(c)
        /\ UpstreamOutcome(c).kind = "status" /\ UpstreamOutcome(c).status = 404
        /\ ClientResult(c).error # None
        /\ ClientResult(c).error[1][1] = "Failed to search libraries: "

\* ------------------------------------------------------------------------
\* C11: fetch_library_documentation maps failures to returned text, never to
\* "no content": 429 -> the rate-limit text, 404 -> the does-not-exist text,
\* 401 -> the unauthorized text, every other failing status and every
\* transport failure -> "Failed to fetch documentation: " + cause; the cases
\* are disjoint.
\* ------------------------------------------------------------------------
C11_FetchFailureTexts ==
    \A c \in CallIds :
        (FetchDone(c) /\ UpstreamFailure(UpstreamOutcome(c))) =>
            /\ ClientResult(c).ok
            /\ Len(ClientResult(c).doc) = 1
            /\ LET o == UpstreamOutcome(c)
                   text == ClientResult(c).doc[1]
               IN  /\ (o.kind = "status" /\ o.status = 429) <=>
                         text = <<"Rate limited due to too many requests. Please try again later.">>
                   /\ (o.kind = "status" /\ o.status = 404) <=>
                         text = <<"The library you are trying to access does not exist. Please try with a different library ID.">>
                   /\ (o.kind = "status" /\ o.status = 401) <=>
                         text = <<"Unauthorized. Please check your API key.">>
                   /\ ~(o.kind = "status" /\ o.status \in {429, 404, 401}) <=>
                         /\ Len(text) > 1
                         /\ text[1] = "Failed to fetch documentation: "
                         /\ SubSeq(text, 2, Len(text)) = DisplayError(o)

\* a fetch that met a 404 returned the does-not-exist text
C11_Witness ==
    \E c \in CallIds :
        /\ FetchDone(c)
        /\ UpstreamOutcome(c).kind = "status" /\ UpstreamOutcome(c).status = 404
        /\ ClientResult(c).doc # None
        /\ ClientResult(c).doc[1][1] =
              "The library you are trying to access does not exist. Please try with a different library ID."

\* ------------------------------------------------------------------------
\* C12: for a 2xx fetch response whose body text has been read, the result
\* is None exactly when the whole body is empty, "No content available" or
\* "No context data available"; every other body is returned unchanged as
\* Some(body).
\* ------------------------------------------------------------------------
IsNoContentBody(text) ==
    \/ text = <<>>
    \/ text = <<"No content available">>
    \/ text = <<"No context data available">>

Accepted(c) == calls[c].pc \in {"awaiting", "done"} /\ calls[c].op # "none"
FetchCall(c) == Accepted(c) /\ calls[c].op = "fetch"
SearchCall(c) == Accepted(c) /\ calls[c].op = "search"
Outbound(c) == calls[c].outbound[1]
Argument(c, key) == calls[c].request.arguments.map[key]
HasArgument(c, key) ==
    calls[c].request.arguments.some /\ key \in DOMAIN calls[c].request.arguments.map

\* the values of the query parameters (or headers) called name, in order
RECURSIVE ValuesOf(_, _)
ValuesOf(pairs, name) ==
    IF pairs = <<>> THEN <<>>
    ELSE (IF Head(pairs)[1] = name THEN <<Head(pairs)[2]>> ELSE <<>>)
         \o ValuesOf(Tail(pairs), name)

RECURSIVE NamesOf(_)
NamesOf(pairs) ==
    IF pairs = <<>> THEN <<>> ELSE <<Head(pairs)[1]>> \o NamesOf(Tail(pairs))

\* a tokens argument that is a non-negative integer
IsTokenCount(v) == v.t = "number" /\ ~v.frac /\ v.n >= 0

\* ------------------------------------------------------------------------
\* C13: the tokens value sent by fetch_library_documentation is max(t, 1000)
\* with t the supplied value, or 5000 when none is supplied: absent -> 5000,
\* below 1000 -> 1000, 1000 or more -> unchanged.
\* ------------------------------------------------------------------------
C13_TokensClamp ==
    \A c \in CallIds :
        FetchCall(c) =>
            /\ ~HasArgument(c, "tokens") =>
                  ValuesOf(Outbound(c).query, "tokens") = << <<"5000">> >>
            /\ (HasArgument(c, "tokens") /\ IsTokenCount(Argument(c, "tokens"))
                   /\ Argument(c, "tokens").hi = 0) =>
                  LET t == Argument(c, "tokens").n
                  IN  /\ t < 1000 => ValuesOf(Outbound(c).query, "tokens") = << <<"1000">> >>
                      /\ t >= 1000 => ValuesOf(Outbound(c).query, "tokens") = << <<ToString(t)>> >>

\* a request for 999 tokens went out with tokens=1000 (and one for 7000 is possible)
C13_Witness ==
    \E c \in CallIds :
        /\ FetchCall(c) /\ HasArgument(c, "tokens")
        /\ Argument(c, "tokens") = JNum(999)
        /\ ValuesOf(Outbound(c).query, "tokens") = << <<"1000">> >>

\* ------------------------------------------------------------------------
\* C14: for every non-negative integer n given as tokens, whatever its
\* magnitude, the dispatcher passes Some(n) and the request carries
\* max(n, 1000).
\* ------------------------------------------------------------------------
\* decimal text of hi * 2^32 + n, written symbolically above 32 bits
U64Text(hi, n) ==
    IF hi = 0 THEN <<ToString(n)>> ELSE <<ToString(hi), "*2^32+", ToString(n)>>

C14_TokensCoercion ==
    \A c \in CallIds :
        (FetchCall(c) /\ HasArgument(c, "tokens") /\ IsTokenCount(Argument(c, "tokens"))) =>
            LET v == Argument(c, "tokens")
            IN  ValuesOf(Outbound(c).query, "tokens") =
                    << IF v.hi = 0 /\ v.n < 1000 THEN <<"1000">> ELSE U64Text(v.hi, v.n) >>

\* ------------------------------------------------------------------------
\* C15: the fetch URL is {base_url}/v1/ followed by the library id with
\* exactly one leading '/' removed when there is one; an id with two leading
\* slashes keeps one of them.
\* ------------------------------------------------------------------------
C15_LibraryIdPath ==
    \A c \in CallIds :
        FetchCall(c) =>
            LET id == Argument(c, "context7CompatibleLibraryID").s
                url == Outbound(c).url
                n == Len(client.base_url)
                path == SubSeq(url, n + 2, Len(url))
            IN  /\ Len(url) >= n + 1
                /\ SubSeq(url, 1, n) = client.base_url
                /\ url[n + 1] = "/v1/"
                /\ IF id # <<>> /\ id[1] = "/"
                   THEN <<"/">> \o path = id
                   ELSE path = id

\* the id "//x" went out as path "/x"
C15_Witness ==
    \E c \in CallIds :
        /\ FetchCall(c)
        /\ Argument(c, "context7CompatibleLibraryID").s = <<"/", "/", "x">>
        /\ Outbound(c).url = client.base_url \o <<"/v1/", "/", "x">>

\* ------------------------------------------------------------------------
\* C16: a search request carries exactly the parameter query, the
\* libraryName unchanged; a fetch request carries tokens (decimal text of
\* the clamped value) and type=txt, and topic if and only if a topic was
\* supplied, with the supplied value.
\* ------------------------------------------------------------------------
C16_QueryParameters ==
    \A c \in CallIds :
        /\ SearchCall(c) =>
              Outbound(c).query = << <<"query", Argument(c, "libraryName").s>> >>
        /\ FetchCall(c) =>
              LET q == Outbound(c).query
                  supplied == HasArgument(c, "topic") /\ Argument(c, "topic").t = "string"
              IN  /\ NamesOf(q) = IF supplied THEN <<"tokens", "type", "topic">>
                                  ELSE <<"tokens", "type">>
                  /\ ValuesOf(q, "type") = << <<"txt">> >>
                  /\ Len(ValuesOf(q, "tokens")[1]) = 1
                  /\ supplied => ValuesOf(q, "topic") = <<Argument(c, "topic").s>>

\* a fetch with an empty topic string carries topic with the empty value
C16_Witness ==
    \E c \in CallIds :
        /\ FetchCall(c) /\ HasArgument(c, "topic")
        /\ Argument(c, "topic") = JStr(<<>>)
        /\ ValuesOf(Outbound(c).query, "topic") = << <<>> >>

\* ------------------------------------------------------------------------
\* C17: an outbound request carries Authorization: Bearer <key> if and only
\* if the client was built with an api_key, with that key; every fetch
\* request carries X-Context7-Source: mcp-server and no search request does.
\* ------------------------------------------------------------------------
C17_Headers ==
    \A c \in CallIds :
        Accepted(c) =>
            LET h == Outbound(c).headers
            IN  /\ client.api_key = <<>> => ValuesOf(h, "Authorization") = <<>>
                /\ client.api_key # <<>> =>
                      ValuesOf(h, "Authorization") = << <<"Bearer ">> \o client.api_key[1] >>
                /\ calls[c].op = "fetch" =>
                      ValuesOf(h, "X-Context7-Source") = << <<"mcp-server">> >>
                /\ calls[c].op = "search" => ValuesOf(h, "X-Context7-Source") = <<>>

\* a search went out with the bearer header and without the source header
C17_Witness ==
    \E c \in CallIds :
        /\ SearchCall(c) /\ client.api_key # <<>> /\ ~client.insecure
        /\ ValuesOf(Outbound(c).headers, "Authorization") = << <<"Bearer ", "test-api-key">> >>
        /\ ValuesOf(Outbound(c).headers, "X-Context7-Source") = <<>>

\* ------------------------------------------------------------------------
\* Vocabulary for the rendered text
\* ------------------------------------------------------------------------
ContentOf(c) == Response(c).content[1].text

\* pieces occurs in text as a run of consecutive pieces
Contains(text, pieces) ==
    \E i \in 1..(Len(text) - Len(pieces) + 1) :
        SubSeq(text, i, i + Len(pieces) - 1) = pieces

\* position of the first piece equal to label, 0 when there is none
IndexOf(text, label) ==
    IF \E i \in 1..Len(text) : text[i] = label
    THEN CHOOSE i \in 1..Len(text) :
             text[i] = label /\ \A j \in 1..(i - 1) : text[j] # label
    ELSE 0

Count(text, label) == Cardinality({ i \in 1..Len(text) : text[i] = label })

\* ------------------------------------------------------------------------
\* C18: for resolve-library-id, when the search outcome has error set the
\* single content item is that error text verbatim (matches are not
\* rendered); otherwise the content is the fixed preamble followed by the
\* formatter's output, which for the /nixos/nix result holds the title, the
\* id, "Code Snippets: 1241", "Trust Score: 9.0" and the versions line.
\* ------------------------------------------------------------------------
C18_ResolveContent ==
    \A c \in CallIds :
        (SearchDone(c) /\ ClientResult(c).ok) =>
            LET r == ClientResult(c)
                text == ContentOf(c)
                rest == SubSeq(text, Len(PREAMBLE) + 1, Len(text))
            IN  /\ Response(c).kind = "success"
                /\ Len(Response(c).content) = 1
                /\ r.error # None => text = r.error[1]
                /\ r.error = None =>
                      /\ SubSeq(text, 1, Len(PREAMBLE)) = PREAMBLE
                      /\ r.results = <<>> =>
                            rest = <<"No documentation libraries found matching your query.">>
                      /\ UpstreamOutcome(c).body.results = <<WireNix>> =>
                            /\ Contains(rest, <<"- Title: ", "Nix">>)
                            /\ Contains(rest, <<"- Context7-compatible library ID: ", "/", "nixos/nix">>)
                            /\ Contains(rest, <<"- Code Snippets: ", "1241">>)
                            /\ Contains(rest, <<"- Trust Score: ", "9", ".", "0">>)
                            /\ Contains(rest, <<"- Versions: ", "2.18.0", ", ", "2.17.0">>)

\* an outcome with both an error and matches was answered with the error alone
C18_Witness ==
    \E c \in CallIds :
        /\ SearchDone(c) /\ ClientResult(c).ok
        /\ ClientResult(c).error # None /\ ClientResult(c).results # <<>>
        /\ ContentOf(c) = <<"upstream says no">>

\* ------------------------------------------------------------------------
\* C19: for get-library-docs the content is the text unchanged for
\* Some(text), the fixed message pointing to resolve-library-id for None,
\* and "Error fetching library documentation: " + message for a hard
\* failure; the cases are disjoint and each is a success envelope.
\* ------------------------------------------------------------------------
C19_DocsContent ==
    \A c \in CallIds :
        FetchDone(c) =>
            LET r == ClientResult(c)
                text == ContentOf(c)
            IN  /\ Response(c).kind = "success"
                /\ Len(Response(c).content) = 1
                /\ (r.ok /\ r.doc # None) => text = r.doc[1]
                /\ (r.ok /\ r.doc = None) <=> text = DOCS_NOT_FOUND
                /\ ~r.ok <=>
                      /\ Len(text) >= 1
                      /\ text[1] = "Error fetching library documentation: "
                /\ ~r.ok => SubSeq(text, 2, Len(text)) = r.err

\* a fetch that found no content was answered with the fixed message
C19_Witness ==
    \E c \in CallIds :
        /\ FetchDone(c) /\ ClientResult(c).ok /\ ClientResult(c).doc = None
        /\ UpstreamOutcome(c).body.text = <<"No context data available">>
        /\ ContentOf(c) = DOCS_NOT_FOUND

\* ------------------------------------------------------------------------
\* C20: in a formatted match block "- Code Snippets: n" appears iff
\* total_snippets is present and not -1, "- Trust Score: t" iff trust_score
\* is present and >= 0, "- Versions: ..." (joined with ", ") iff versions is
\* present and not empty; the Title, library ID and Description lines always
\* appear, and the lines keep this order.
\* ------------------------------------------------------------------------
\* the calls whose response is the preamble followed by one match block
OneBlock(c) ==
    /\ SearchDone(c) /\ ClientResult(c).ok /\ ClientResult(c).error = None
    /\ Len(UpstreamOutcome(c).body.results) = 1

C20_BlockLines ==
    \A c \in CallIds :
        OneBlock(c) =>
            LET w == UpstreamOutcome(c).body.results[1]
                block == SubSeq(ContentOf(c), Len(PREAMBLE) + 1, Len(ContentOf(c)))
                iT == IndexOf(block, "- Title: ")
                iI == IndexOf(block, "- Context7-compatible library ID: ")
                iD == IndexOf(block, "- Description: ")
                iS == IndexOf(block, "- Code Snippets: ")
                iR == IndexOf(block, "- Trust Score: ")
                iV == IndexOf(block, "- Versions: ")
                last == IF iR > 0 THEN iR ELSE IF iS > 0 THEN iS ELSE iD
            IN  /\ iT = 1 /\ iT < iI /\ iI < iD
                /\ SubSeq(block, iT + 1, iI - 2) = w.title
                /\ SubSeq(block, iI + 1, iD - 2) = w.id
                /\ iS > 0 <=> (w.totalSnippets # <<>> /\ w.totalSnippets[1] # -1)
                /\ iS > 0 => (iS > iD /\ block[iS + 1] = ToString(w.totalSnippets[1]))
                /\ iR > 0 <=> (w.trustScore # <<>> /\ w.trustScore[1] >= 0)
                /\ iR > 0 => (iR > iD /\ iR > iS)
                /\ iV > 0 <=> (w.versions # <<>> /\ w.versions[1] # <<>>)
                /\ iV > 0 =>
                      /\ iV > last
                      /\ LET vs == w.versions[1]
                             line == SubSeq(block, iV + 1, Len(block))
                         IN  IF Len(vs) = 1 THEN line = vs[1]
                             ELSE line = vs[1] \o <<", ">> \o vs[2]
                /\ \A l \in {"- Title: ", "- Context7-compatible library ID: ",
                             "- Description: ", "- Code Snippets: ",
                             "- Trust Score: ", "- Versions: "} : Count(block, l) <= 1
                /\ Count(block, "\n") =
                      2 + (IF iS > 0 THEN 1 ELSE 0) + (IF iR > 0 THEN 1 ELSE 0)
                        + (IF iV > 0 THEN 1 ELSE 0)

\* a match with snippets -1, a negative score and two versions was rendered
\* with the versions line right after the description
C20_Witness ==
    \E c \in CallIds :
        /\ OneBlock(c)
        /\ UpstreamOutcome(c).body.results[1].totalSnippets = <<-1>>
        /\ UpstreamOutcome(c).body.results[1].trustScore = <<-100>>
        /\ UpstreamOutcome(c).body.results[1].versions # <<>>
        /\ Len(UpstreamOutcome(c).body.results[1].versions[1]) = 2
        /\ Contains(ContentOf(c), <<"- Description: ", "A project", "\n", "- Versions: ">>)

\* ------------------------------------------------------------------------
\* C21: a total_snippets of -1 and a negative trust_score never appear in the
\* formatted block, and every other field that is present (total_snippets,
\* trust_score, versions) does appear.
\* ------------------------------------------------------------------------
Block(c) == SubSeq(ContentOf(c), Len(PREAMBLE) + 1, Len(ContentOf(c)))
Match(c) == UpstreamOutcome(c).body.results[1]

SentinelsHidden(c) ==
    /\ Match(c).totalSnippets = <<-1>> => Count(Block(c), "- Code Snippets: ") = 0
    /\ (Match(c).trustScore # <<>> /\ Match(c).trustScore[1] < 0) =>
           /\ Count(Block(c), "- Trust Score: ") = 0
           /\ Count(Block(c), "-1") = 0

NumbersShown(c) ==
    /\ (Match(c).totalSnippets # <<>> /\ Match(c).totalSnippets[1] # -1) =>
           Contains(Block(c), <<"\n", "- Code Snippets: ", ToString(Match(c).totalSnippets[1])>>)
    /\ (Match(c).trustScore # <<>> /\ Match(c).trustScore[1] >= 0) =>
           Contains(Block(c), <<"\n", "- Trust Score: ">>
                                  \o format_trust_score(Match(c).trustScore[1]))

\* the claim as stated: versions appears whenever it is present
C21_PresentFieldsShown ==
    \A c \in CallIds :
        OneBlock(c) =>
            /\ SentinelsHidden(c)
            /\ NumbersShown(c)
            /\ Match(c).versions # <<>> => Count(Block(c), "- Versions: ") = 1

\* amended: versions appears whenever it is present and holds a version; a
\* present, empty list gives no line
C21_NonEmptyFieldsShown ==
    \A c \in CallIds :
        OneBlock(c) =>
            /\ SentinelsHidden(c)
            /\ NumbersShown(c)
            /\ (Match(c).versions # <<>> /\ Match(c).versions[1] # <<>>) =>
                   Contains(Block(c), <<"\n", "- Versions: ">> \o Match(c).versions[1][1])
            /\ Match(c).versions = <<  <<>>  >> => Count(Block(c), "- Versions: ") = 0

\* a match with zero snippets and a zero score was rendered with both lines
C21_Witness ==
    \E c \in CallIds :
        /\ OneBlock(c)
        /\ Match(c).totalSnippets = <<0>> /\ Match(c).trustScore = <<0>>
        /\ Match(c).versions = <<  <<>>  >>
        /\ Contains(Block(c), <<"- Code Snippets: ", "0", "\n", "- Trust Score: ", "0", ".", "0">>)

\* ------------------------------------------------------------------------
\* C22: format_search_results returns exactly "No documentation libraries
\* found matching your query." for an empty match list; otherwise one block
\* per match, in input order, nothing re-sorted or dropped, joined by
\* "\n----------\n": n matches give n blocks and n-1 separators.
\* ------------------------------------------------------------------------
\* the runs of text between occurrences of the separator piece
RECURSIVE SplitAt(_, _)
SplitAt(text, sep) ==
    IF IndexOf(text, sep) = 0 THEN <<text>>
    ELSE <<SubSeq(text, 1, IndexOf(text, sep) - 1)>>
         \o SplitAt(SubSeq(text, IndexOf(text, sep) + 1, Len(text)), sep)

Rendered(c) ==
    /\ SearchDone(c) /\ ClientResult(c).ok /\ ClientResult(c).error = None

C22_Blocks ==
    \A c \in CallIds :
        Rendered(c) =>
            LET ws == UpstreamOutcome(c).body.results
                blocks == SplitAt(Block(c), "\n----------\n")
            IN  IF ws = <<>>
                THEN Block(c) = <<"No documentation libraries found matching your query.">>
                ELSE /\ Count(Block(c), "\n----------\n") = Len(ws) - 1
                     /\ Len(blocks) = Len(ws)
                     /\ \A i \in 1..Len(ws) :
                            /\ Count(blocks[i], "- Title: ") = 1
                            /\ Contains(blocks[i],
                                   <<"- Title: ">> \o ws[i].title \o <<"\n">>
                                   \o <<"- Context7-compatible library ID: ">> \o ws[i].id
                                   \o <<"\n">>
                                   \o <<"- Description: ">> \o ws[i].description)

\* a list that repeats a match and is in no sorted order gave three blocks
C22_Witness ==
    \E c \in CallIds :
        /\ Rendered(c)
        /\ UpstreamOutcome(c).body.results = <<WireBare, WireNix, WireBare>>
        /\ Count(Block(c), "\n----------\n") = 2
        /\ Count(Block(c), "Next.js") = 2

\* ------------------------------------------------------------------------
\* A session: tool calls served one after the other in slot 1, list_tools
\* served in slot 2, and the failures that have happened counted
\* ------------------------------------------------------------------------
\* list_tools takes no argument, suspends nowhere and returns its result
Listing ==
    [pc |-> "done", request |-> [name |-> "tools/list", arguments |-> NoArguments],
     op |-> "list", outbound |-> <<>>, outcome |-> None, result |-> None,
     response |-> Some(list_tools)]

SessionRequests == Requests \cup DetailRequests

\* rate limit, unauthorized, not found, other status, transport failure,
\* lost task, unreadable or unparseable body
FailedOutcome(op, outcome) ==
    \/ outcome.kind # "ok"
    \/ ~outcome.body.readable
    \/ op = "search" /\ ~Parseable(outcome.body)

Bump == IF failures < MaxFailures THEN failures + 1 ELSE failures

InitSession ==
    /\ client \in AllClients
    /\ calls = [c \in CallIds |-> Idle]
    /\ failures = 0

ListTools ==
    /\ calls[2].pc = "idle"
    /\ calls' = [calls EXCEPT ![2] = Listing]
    /\ UNCHANGED <<client, failures>>

\* a malformed call is rejected at once and counts as a failure
CallToolSession ==
    \E request \in SessionRequests :
        /\ calls[1].pc = "idle"
        /\ calls' = [calls EXCEPT ![1] = call_tool_begin(client, request)]
        /\ failures' = IF call_tool_begin(client, request).pc = "done" THEN Bump ELSE failures
        /\ UNCHANGED client

ResumeSession ==
    /\ calls[1].pc = "awaiting"
    /\ \E outcome \in (IF calls[1].op = "search" THEN SearchOutcomes ELSE FetchOutcomes) :
           /\ calls' = [calls EXCEPT ![1] = call_tool_resume(calls[1], outcome)]
           /\ failures' = IF FailedOutcome(calls[1].op, outcome) THEN Bump ELSE failures
    /\ UNCHANGED client

NextSession ==
    ListTools \/ CallToolSession \/ ResumeSession \/ Return(1) \/ Return(2)

SpecSession == InitSession /\ [][NextSession]_vars

\* ------------------------------------------------------------------------
\* C23: list_tools always returns exactly two descriptors, resolve-library-id
\* (required: libraryName) and get-library-docs (required:
\* context7CompatibleLibraryID; optional: tokens, topic), whatever calls came
\* before; the advertised names are exactly the names call_tool accepts, and
\* the advertised required fields are exactly the arguments whose absence
\* call_tool rejects.
\* ------------------------------------------------------------------------
Listed == calls[2].pc = "done" /\ calls[2].op = "list"
Tools == Unwrap(calls[2].response).tools
Range(seq) == { seq[i] : i \in 1..Len(seq) }
AdvertisedNames == { Tools[i].name : i \in 1..Len(Tools) }
Descriptor(name) == CHOOSE t \in Range(Tools) : t.name = name
RequiredOf(name) == Range(Descriptor(name).input_schema.required)
PropertiesOf(name) == DOMAIN Descriptor(name).input_schema.properties

Started(c) == calls[c].pc \in {"awaiting", "done"} /\ calls[c].op # "list"
RejectedCall(c) ==
    /\ calls[c].pc = "done" /\ calls[c].op = "none"
    /\ Response(c).kind = "error" /\ calls[c].outbound = <<>>
UnknownToolCall(c) == RejectedCall(c) /\ Response(c).message[1] = "Unknown tool: "
Supplied(c) ==
    IF calls[c].request.arguments.some
    THEN DOMAIN calls[c].request.arguments.map ELSE {}

C23_ListTools ==
    Listed =>
        /\ Len(Tools) = 2
        /\ Tools[1].name = "resolve-library-id"
        /\ Tools[2].name = "get-library-docs"
        /\ RequiredOf("resolve-library-id") = {"libraryName"}
        /\ PropertiesOf("resolve-library-id") = {"libraryName"}
        /\ RequiredOf("get-library-docs") = {"context7CompatibleLibraryID"}
        /\ PropertiesOf("get-library-docs") \ RequiredOf("get-library-docs")
               = {"tokens", "topic"}
        /\ Started(1) =>
              /\ UnknownToolCall(1) <=> Request(1).name \notin AdvertisedNames
              /\ Request(1).name \in AdvertisedNames =>
                    \A k \in PropertiesOf(Request(1).name) \ Supplied(1) :
                        IF k \in RequiredOf(Request(1).name)
                        THEN RejectedCall(1)
                        ELSE (\A r \in RequiredOf(Request(1).name) :
                                  HasString(Request(1), r)) => ~RejectedCall(1)

\* after two failures list_tools still gave the two descriptors, next to a
\* get-library-docs call that was accepted without tokens and topic
C23_Witness ==
    /\ Listed /\ failures = 2 /\ Len(Tools) = 2
    /\ Started(1) /\ ~RejectedCall(1)
    /\ Request(1).name = "get-library-docs"
    /\ Supplied(1) = {"context7CompatibleLibraryID"}

\* ------------------------------------------------------------------------
\* C24: concurrent tool invocations are independent: under every
\* interleaving of the in-flight calls on the shared client, each call's
\* outbound request and result are those the call produces when it runs
\* alone against the same upstream response, and no step changes the client
\* configuration (api_key, base_url, insecure).
\* ------------------------------------------------------------------------
\* the invocation of request run by itself, up to the blocking task
Alone(request) == call_tool_begin(client, request)

AsAlone(c) ==
    /\ calls[c].pc = "awaiting" => calls[c] = Alone(Request(c))
    /\ calls[c].pc = "done" =>
          calls[c] = IF Alone(Request(c)).pc = "done" THEN Alone(Request(c))
                     ELSE call_tool_resume(Alone(Request(c)), UpstreamOutcome(c))

C24_Independent ==
    /\ [](\A c \in CallIds : AsAlone(c))
    /\ [][ /\ client'.api_key = client.api_key
           /\ client'.base_url = client.base_url
           /\ client'.insecure = client.insecure ]_vars

\* two calls of different tools are finished at the same time, one answered
\* from a 429 and one from a documentation body
C24_Witness ==
    \E c, d \in CallIds :
        /\ c # d /\ SearchDone(c) /\ FetchDone(d)
        /\ UpstreamOutcome(c).kind = "status" /\ UpstreamOutcome(c).status = 429
        /\ UpstreamOutcome(d).kind = "ok"
        /\ ContentOf(c) = <<"Rate limited due to too many requests. Please try again later.">>
        /\ ContentOf(d) = <<"# Getting Started with Nix">>

\* ------------------------------------------------------------------------
\* C25: after any sequence of per-call failures (rate limit, unauthorized,
\* not found, transport failure, unparseable body, malformed call) the server
\* still accepts the next tool call and handles it exactly as it would have
\* handled it as the first call: no failure ends the process or changes what
\* comes later.
\* ------------------------------------------------------------------------
C25_AliveAfterFailures ==
    failures > 0 =>
        /\ client \in AllClients
        /\ calls[1].pc \in {"idle", "awaiting", "done"}
        /\ calls[1].pc = "idle" => (calls[1] = Idle /\ ENABLED CallToolSession)
        /\ calls[1].pc = "awaiting" => ENABLED ResumeSession
        /\ calls[1].pc = "done" => ENABLED Return(1)
        /\ AsAlone(1)

\* two calls have failed and the next one was answered with documentation
C25_Witness ==
    /\ failures = 2
    /\ FetchDone(1)
    /\ UpstreamOutcome(1).kind = "ok"
    /\ ContentOf(1) = <<"# Getting Started with Nix">>

\* ------------------------------------------------------------------------
\* Cancellation: the runtime drops the future of a suspended call_tool (the
\* peer went away, or the transport was closed).  The HTTP call runs in a
\* spawn_blocking task; dropping the JoinHandle that call_tool awaits
\* detaches the task, it does not stop it.
\*   pc = "dropped"   call_tool is gone, the blocking task is still running
\*   pc = "finished"  the blocking task has produced its value, which nobody
\*                    reads
\* ------------------------------------------------------------------------
\* Variant of Cancel as it would be with the request awaited directly
\* (no blocking task): dropping the future drops the request with it.
CancelAborts ==
    /\ calls[1].pc = "awaiting"
    /\ calls' = [calls EXCEPT ![1] = Idle]
    /\ UNCHANGED <<client, failures>>

Cancel ==
    /\ calls[1].pc = "awaiting"
    /\ calls' = [calls EXCEPT ![1].pc = "dropped"]
    /\ UNCHANGED <<client, failures>>

\* request.call() returns in the detached task
Complete ==
    /\ calls[1].pc = "dropped"
    /\ \E outcome \in (IF calls[1].op = "search" THEN SearchOutcomes ELSE FetchOutcomes) :
           calls' = [calls EXCEPT ![1].pc = "finished", ![1].outcome = Some(outcome)]
    /\ UNCHANGED <<client, failures>>

\* the task's value is dropped with the task
Forget ==
    /\ calls[1].pc = "finished"
    /\ calls' = [calls EXCEPT ![1] = Idle]
    /\ UNCHANGED <<client, failures>>

NextCancel ==
    CallToolDetail \/ ResumeDetail \/ Return(1) \/ Cancel \/ Complete \/ Forget

SpecCancel == InitDetail /\ [][NextCancel]_vars

\* ------------------------------------------------------------------------
\* C26: no cancellation reaches an in-flight HTTP call: once a tool call has
\* dispatched its outbound request, closing the transport or dropping the
\* waiting task does not abort the request; in every step the request is
\* either still in flight, unchanged, or has completed with an outcome.
\* ------------------------------------------------------------------------
InFlight(c) == calls[c].outbound # <<>> /\ calls[c].outcome = None
Completed(c) ==
    /\ calls[c].outcome # None
    /\ UpstreamOutcome(c).kind \in {"ok", "status", "transport", "join"}

C26_NoAbort ==
    [][ \A c \in CallIds :
            InFlight(c) =>
                /\ calls'[c].outbound = calls[c].outbound
                /\ calls'[c].request = calls[c].request
                /\ InFlight(c)' \/ Completed(c)' ]_vars

\* a call was dropped while it waited and its request still got its 2xx
\* response
C26_Witness ==
    /\ calls[1].pc = "finished"
    /\ calls[1].outbound # <<>>
    /\ calls[1].response = None
    /\ UpstreamOutcome(1).kind = "ok"

\* ------------------------------------------------------------------------
\* TLS trust policy: several clients in one process, one per call slot, each
\* built from its own command line or constructor arguments; the server
\* presents a certificate and the agent of the call accepts it or not
\* ------------------------------------------------------------------------
Flags == {"--api-key", "--insecure"}

\* Cli::parse(): api_key is an option, insecure a switch that is off unless given
Cli(argv) ==
    [api_key |-> IF "--api-key" \in argv THEN Some(<<"test-api-key">>) ELSE None,
     insecure |-> "--insecure" \in argv]

\* run_server(cli.api_key, cli.insecure); argv is kept for the properties
Process(argv) ==
    [argv |-> argv, tool |-> Context7Client(Cli(argv).api_key, Cli(argv).insecure)]

\* what the server presents: a certificate that is in order, one whose chain
\* ends in no trusted root, one issued for another host, one whose handshake
\* signature does not verify
Certificates == {"valid", "untrusted_chain", "wrong_hostname", "bad_signature"}

\* verify_server_cert, verify_tls12_signature and verify_tls13_signature of
\* InsecureVerifier all return Ok
InsecureVerifier(cert) ==
    LET verify_server_cert == TRUE
        verify_signature == TRUE
    IN  verify_server_cert /\ verify_signature

\* the verifier of ureq::agent(): chain, host name and signature are checked
DefaultVerifier(cert) ==
    LET verify_server_cert == cert \notin {"untrusted_chain", "wrong_hostname"}
        verify_signature == cert # "bad_signature"
    IN  verify_server_cert /\ verify_signature

\* Variant of agent_verifies with one agent for the whole process, insecure
\* as soon as one client is.
agent_verifies_any(request, cert) ==
    IF \E c \in CallIds : client[c].tool.insecure
    THEN InsecureVerifier(cert)
    ELSE DefaultVerifier(cert)

\* let agent = if insecure { .. InsecureVerifier .. } else { ureq::agent() }
agent_verifies(request, cert) ==
    IF request.insecure THEN InsecureVerifier(cert) ELSE DefaultVerifier(cert)

TlsRequests ==
    { [name |-> RESOLVE_LIBRARY_ID, arguments |-> Arguments("libraryName" :> JStr(<<"nix">>))],
      [name |-> GET_LIBRARY_DOCS,
       arguments |-> Arguments("context7CompatibleLibraryID" :> JStr(<<"/", "nixos/nix">>))] }

\* what the server answers once the connection stands
TlsAnswers(op) ==
    { Outcome("status", 401, NoBody),
      Outcome("ok", 200,
              IF op = "search"
              THEN Body(TRUE, TRUE, TRUE, <<WireNix>>, "null", <<>>, <<>>)
              ELSE Body(TRUE, FALSE, FALSE, <<>>, "absent", <<>>,
                        <<"# Getting Started with Nix">>)) }

\* request.call(): the handshake, then the answer; a certificate the agent
\* does not accept is a transport error
tls_call(request, cert, answer) ==
    LET outcome == IF agent_verifies(request, cert) THEN answer
                   ELSE Outcome("transport", 0, NoBody)
    IN  [kind |-> outcome.kind, status |-> outcome.status, body |-> outcome.body,
         cert |-> cert]

InitTls ==
    /\ client \in [CallIds -> { Process(argv) : argv \in SUBSET Flags }]
    /\ calls = [c \in CallIds |-> Idle]
    /\ failures = 0

CallToolTls(c) ==
    \E request \in TlsRequests :
        /\ calls[c].pc = "idle"
        /\ calls' = [calls EXCEPT ![c] = call_tool_begin(client[c].tool, request)]
        /\ UNCHANGED <<client, failures>>

ResumeTls(c) ==
    /\ calls[c].pc = "awaiting"
    /\ \E cert \in Certificates, answer \in TlsAnswers(calls[c].op) :
           calls' = [calls EXCEPT ![c] =
               call_tool_resume(calls[c], tls_call(calls[c].outbound[1], cert, answer))]
    /\ UNCHANGED <<client, failures>>

NextTls == \E c \in CallIds : CallToolTls(c) \/ ResumeTls(c) \/ Return(c)

SpecTls == InitTls /\ [][NextTls]_vars

\* ------------------------------------------------------------------------
\* C27: certificate-chain, hostname and signature validation is skipped for
\* an outbound call if and only if the client issuing the call was built
\* with insecure = true; insecure is false unless the insecure flag is
\* passed; the policy is chosen per call from that client's flag, so a client
\* with insecure = false keeps default validation even when another client
\* of the process is insecure.
\* ------------------------------------------------------------------------
\* the call got an HTTP response over a connection whose certificate does
\* not verify
ValidationSkipped(c) ==
    /\ UpstreamOutcome(c).cert # "valid"
    /\ UpstreamOutcome(c).kind \in {"ok", "status"}

C27_TrustPolicy ==
    \A c \in CallIds :
        /\ client[c].tool.insecure <=> "--insecure" \in client[c].argv
        /\ Accepted(c) => (Outbound(c).insecure <=> client[c].tool.insecure)
        /\ (Done(c) /\ UpstreamOutcome(c).cert # "valid") =>
              /\ ValidationSkipped(c) <=> client[c].tool.insecure
              /\ ~client[c].tool.insecure =>
                    /\ UpstreamOutcome(c).kind = "transport"
                    /\ Response(c).kind = "success"
                    /\ ContentOf(c)[1] \in {"Failed to search libraries: ",
                                            "Failed to fetch documentation: "}

\* the same certificate for another host was accepted for the call of an
\* insecure client and refused for the call of a client that is not
C27_Witness ==
    \E c, d \in CallIds :
        /\ "--insecure" \in client[c].argv /\ "--insecure" \notin client[d].argv
        /\ Done(c) /\ Done(d)
        /\ UpstreamOutcome(c).cert = "wrong_hostname" /\ UpstreamOutcome(c).kind = "ok"
        /\ UpstreamOutcome(d).cert = "wrong_hostname" /\ UpstreamOutcome(d).kind = "transport"

\* ------------------------------------------------------------------------
\* handler.rs: the single-file implementation the binary is built from
\* (client, formatter and dispatcher in one module)
\* ------------------------------------------------------------------------
HANDLER_PREAMBLE ==
    <<"Available Libraries (top matches):\n\nEach result includes:\n- Library ID: Context7-compatible identifier (format: /org/project)\n- Name: Library or package name\n- Description: Short summary\n- Code Snippets: Number of available code examples\n- Trust Score: Authority indicator\n- Versions: List of versions if available. Use one of those versions if and only if the user explicitly provides a version in their query.\n\nFor best results, select libraries based on name match, trust score, snippet coverage, and relevance to your use case.\n\n----------\n\n">>

\* the request search_libraries hands to the blocking task (handler.rs)
handler_search_request(cl, query) ==
    [method |-> "GET",
     url |-> cl.base_url \o <<"/v1/search">>,
     query |-> << <<"query", query>> >>,
     headers |-> IF IsSome(cl.api_key)
                 THEN << <<"Authorization", <<"Bearer ">> \o Unwrap(cl.api_key)>> >>
                 ELSE <<>>,
     insecure |-> cl.insecure]

\* the request fetch_library_documentation hands to the blocking task (handler.rs)
handler_fetch_request(cl, library_id, tokens, topic) ==
    [method |-> "GET",
     url |-> cl.base_url \o <<"/v1/">> \o strip_prefix(library_id),
     query |-> << <<"tokens", <<ToString(clamp_tokens(tokens))>> >>,
                  <<"type", <<"txt">> >> >>
              \o (IF IsSome(topic) THEN << <<"topic", Unwrap(topic)>> >> ELSE <<>>),
     headers |-> (IF IsSome(cl.api_key)
                  THEN << <<"Authorization", <<"Bearer ">> \o Unwrap(cl.api_key)>> >>
                  ELSE <<>>)
                 \o << <<"X-Context7-Source", <<"mcp-server">> >> >>,
     insecure |-> cl.insecure]

\* Context7Client::search_libraries of handler.rs
handler_search_libraries(outcome) ==
    IF outcome.kind = "join" THEN Err(JoinErrorText)
    ELSE IF outcome.kind = "ok" THEN into_json(outcome.body)
    ELSE IF outcome.kind = "status" /\ outcome.status = 429
         THEN OkSearch(<<>>, Some(RATE_LIMITED))
    ELSE IF outcome.kind = "status" /\ outcome.status = 401
         THEN OkSearch(<<>>, Some(UNAUTHORIZED))
    ELSE OkSearch(<<>>, Some(FAILED_SEARCH \o DisplayError(outcome)))

\* Context7Client::fetch_library_documentation of handler.rs
handler_fetch_library_documentation(outcome) ==
    IF outcome.kind = "join" THEN Err(JoinErrorText)
    ELSE IF outcome.kind = "ok" THEN
        LET text == into_string(outcome.body)
        IN  IF ~text.ok THEN text
            ELSE IF Unwrap(text.doc) = <<>>
                    \/ Unwrap(text.doc) = NO_CONTENT_AVAILABLE
                    \/ Unwrap(text.doc) = NO_CONTEXT_DATA_AVAILABLE
                 THEN OkDoc(None)
                 ELSE OkDoc(Some(Unwrap(text.doc)))
    ELSE IF outcome.kind = "status" /\ outcome.status = 429
         THEN OkDoc(Some(RATE_LIMITED))
    ELSE IF outcome.kind = "status" /\ outcome.status = 404
         THEN OkDoc(Some(NOT_EXIST))
    ELSE IF outcome.kind = "status" /\ outcome.status = 401
         THEN OkDoc(Some(UNAUTHORIZED))
    ELSE OkDoc(Some(FAILED_FETCH \o DisplayError(outcome)))

\* the closure of format_search_results of handler.rs
handler_format_result(result) ==
    LET parts ==
            << <<"- Title: ">> \o result.title,
               <<"- Context7-compatible library ID: ">> \o result.id,
               <<"- Description: ">> \o result.description >>
            \o (IF IsSome(result.total_snippets) /\ Unwrap(result.total_snippets) # -1
                THEN << <<"- Code Snippets: ", ToString(Unwrap(result.total_snippets))>> >>
                ELSE <<>>)
            \o (IF IsSome(result.trust_score) /\ Unwrap(result.trust_score) >= 0
                THEN << <<"- Trust Score: ">> \o format_trust_score(Unwrap(result.trust_score)) >>
                ELSE <<>>)
            \o (IF IsSome(result.versions) /\ Unwrap(result.versions) # <<>>
                THEN << <<"- Versions: ">> \o Join(Unwrap(result.versions), <<", ">>) >>
                ELSE <<>>)
    IN  Join(parts, <<"\n">>)

RECURSIVE handler_MapFormatResult(_)
handler_MapFormatResult(results) ==
    IF results = <<>> THEN <<>>
    ELSE <<handler_format_result(Head(results))>> \o handler_MapFormatResult(Tail(results))

\* format_search_results of handler.rs
handler_format_search_results(results) ==
    IF results = <<>> THEN NO_LIBRARIES_FOUND
    ELSE Join(handler_MapFormatResult(results), BLOCK_SEPARATOR)

\* the match on search_libraries(..).await of handler.rs
handler_resolve_response(result) ==
    IF result.ok THEN
        IF IsSome(result.error)
        THEN Success(Unwrap(result.error))
        ELSE Success(HANDLER_PREAMBLE \o handler_format_search_results(result.results))
    ELSE Success(FAILED_RETRIEVE \o result.err)

\* the match on fetch_library_documentation(..).await of handler.rs
handler_docs_response(result) ==
    IF result.ok THEN
        IF IsSome(result.doc)
        THEN Success(Unwrap(result.doc))
        ELSE Success(DOCS_NOT_FOUND)
    ELSE Success(ERROR_FETCHING \o result.err)

\* the resolve-library-id arm of handler.rs up to the await
handler_resolve_begin(cl, request) ==
    LET library_name == get_str(request.arguments, "libraryName")
    IN  IF library_name = None
        THEN Rejected(request, invalid_request(<<"Missing libraryName parameter">>))
        ELSE Awaiting(request, "search", handler_search_request(cl, Unwrap(library_name)))

\* the get-library-docs arm of handler.rs up to the await
handler_docs_begin(cl, request) ==
    LET library_id == get_str(request.arguments, "context7CompatibleLibraryID")
        topic == get_str(request.arguments, "topic")
        tokens == get_u32(request.arguments, "tokens")
    IN  IF library_id = None
        THEN Rejected(request,
                      invalid_request(<<"Missing context7CompatibleLibraryID parameter">>))
        ELSE Awaiting(request, "fetch",
                      handler_fetch_request(cl, Unwrap(library_id), tokens, topic))

\* the fallback arm of handler.rs
handler_unknown_tool(request) ==
    Rejected(request, invalid_request(<<"Unknown tool: ", request.name>>))

\* call_tool of handler.rs from its entry to its first suspension point
handler_call_tool_begin(cl, request) ==
    IF request.name = RESOLVE_LIBRARY_ID THEN handler_resolve_begin(cl, request)
    ELSE IF request.name = GET_LIBRARY_DOCS THEN handler_docs_begin(cl, request)
    ELSE handler_unknown_tool(request)

\* call_tool of handler.rs from the completion of the blocking task to its return
handler_call_tool_resume(call, outcome) ==
    LET result == IF call.op = "search"
                  THEN handler_search_libraries(outcome)
                  ELSE handler_fetch_library_documentation(outcome)
        response == IF call.op = "search"
                    THEN handler_resolve_response(result)
                    ELSE handler_docs_response(result)
    IN  [call EXCEPT !.pc = "done", !.outcome = Some(outcome),
                     !.result = Some(result), !.response = Some(response)]

\* ------------------------------------------------------------------------
\* C28: the two implementations (handler.rs; client.rs + formatting.rs +
\* server.rs) differ only in logging: for every tool name, argument map and
\* upstream outcome their call_tool results (envelope kind and content text,
\* the resolve-library-id preamble included) and their outbound requests are
\* the same.
\* ------------------------------------------------------------------------
\* what handler.rs makes of the request and upstream outcome of call c
HandlerCall(c) ==
    LET begun == handler_call_tool_begin(client, Request(c))
    IN  IF begun.pc = "done" \/ calls[c].pc = "awaiting" THEN begun
        ELSE handler_call_tool_resume(begun, UpstreamOutcome(c))

C28_SameAsHandler ==
    \A c \in CallIds :
        calls[c].pc \in {"awaiting", "done"} =>
            /\ HandlerCall(c).outbound = calls[c].outbound
            /\ HandlerCall(c).response = calls[c].response

\* ------------------------------------------------------------------------
\* C29: an argument of the wrong type is treated exactly like an absent one:
\* a required argument that is present but not a string gets the rejection a
\* missing one gets, with no network call; a topic that is not a string, or
\* tokens that is a string, a negative number or a number with a fraction,
\* never causes a rejection, and the call goes out as if the argument had
\* not been supplied (no topic parameter, tokens 5000).
\* ------------------------------------------------------------------------
WrongType(c, key, type) == HasArgument(c, key) /\ Argument(c, key).t # type

BadTokens(c) ==
    /\ HasArgument(c, "tokens")
    /\ \/ Argument(c, "tokens").t # "number"
       \/ Argument(c, "tokens").frac
       \/ Argument(c, "tokens").n < 0

C29_WrongTypeAsAbsent ==
    (Started(1) /\ KnownTool(Request(1))) =>
        /\ WrongType(1, RequiredArgument(Request(1)), "string") =>
              /\ RejectedCall(1)
              /\ Response(1).code = "invalid_request"
              /\ Response(1).message =
                     <<IF Request(1).name = "resolve-library-id"
                       THEN "Missing libraryName parameter"
                       ELSE "Missing context7CompatibleLibraryID parameter">>
        /\ HasString(Request(1), RequiredArgument(Request(1))) =>
              /\ ~RejectedCall(1)
              /\ Len(calls[1].outbound) = 1
              /\ (Request(1).name = "get-library-docs" /\ WrongType(1, "topic", "string")) =>
                     ValuesOf(Outbound(1).query, "topic") = <<>>
              /\ (Request(1).name = "get-library-docs" /\ BadTokens(1)) =>
                     ValuesOf(Outbound(1).query, "tokens") = << <<"5000">> >>

\* a get-library-docs call with tokens -5 and topic 3 went out with
\* tokens=5000 and no topic
C29_Witness ==
    /\ FetchCall(1)
    /\ HasArgument(1, "tokens") /\ Argument(1, "tokens") = JNum(-5)
    /\ HasArgument(1, "topic") /\ Argument(1, "topic") = JNum(3)
    /\ ValuesOf(Outbound(1).query, "tokens") = << <<"5000">> >>
    /\ NamesOf(Outbound(1).query) = <<"tokens", "type">>

\* ------------------------------------------------------------------------
\* Progress: the HTTP call of slot 1 may never complete (no fairness); the
\* HTTP call of every other slot completes at some time with a body, a
\* status code or a transport error (weak fairness of its completion).
\* Nothing in call_tool or the client bounds the wait.
\* ------------------------------------------------------------------------
LiveRequests ==
    TlsRequests \cup { [name |-> RESOLVE_LIBRARY_ID, arguments |-> NoArguments] }

LiveOutcomes(op) == TlsAnswers(op) \cup { Outcome("transport", 0, NoBody) }

CallToolLive(c) ==
    \E request \in LiveRequests :
        /\ calls[c].pc = "idle"
        /\ calls' = [calls EXCEPT ![c] = call_tool_begin(client, request)]
        /\ UNCHANGED <<client, failures>>

\* Variant of ResumeLive with one connection for all calls: a call's HTTP
\* exchange waits for the exchanges dispatched to lower slots.
ResumeLiveSerial(c) ==
    /\ calls[c].pc = "awaiting"
    /\ \A d \in CallIds : d < c => calls[d].pc # "awaiting"
    /\ \E outcome \in LiveOutcomes(calls[c].op) :
           calls' = [calls EXCEPT ![c] = call_tool_resume(calls[c], outcome)]
    /\ UNCHANGED <<client, failures>>

ResumeLive(c) ==
    /\ calls[c].pc = "awaiting"
    /\ \E outcome \in LiveOutcomes(calls[c].op) :
           calls' = [calls EXCEPT ![c] = call_tool_resume(calls[c], outcome)]
    /\ UNCHANGED <<client, failures>>

NextLive == \E c \in CallIds : CallToolLive(c) \/ ResumeLive(c) \/ Return(c)

SpecLive ==
    /\ Init
    /\ [][NextLive]_vars
    /\ \A c \in CallIds \ {1} : WF_vars(ResumeLive(c))

\* ------------------------------------------------------------------------
\* C30: every accepted tool call eventually returns its response provided
\* its outbound HTTP call eventually completes; the layer enforces no
\* timeout: a call leaves its wait only by the completion of its own HTTP
\* call, so a call whose upstream request never completes never returns, and
\* it does not keep other calls from completing.
\* ------------------------------------------------------------------------
C30_Returns ==
    /\ \A c \in CallIds \ {1} : (calls[c].pc = "awaiting") ~> (calls[c].pc = "done")
    /\ [][ \A c \in CallIds :
               (calls[c].pc = "awaiting" /\ calls'[c].pc # "awaiting") =>
                   /\ calls'[c].pc = "done"
                   /\ calls'[c].outcome # None
                   /\ calls'[c].response # None ]_vars

\* call 2 has returned its response while call 1 still waits for upstream
C30_Witness ==
    /\ calls[1].pc = "awaiting"
    /\ calls[2].pc = "done" /\ calls[2].op = "fetch"
    /\ ContentOf(2) = <<"# Getting Started with Nix">>

====
